---------------------------- MODULE Spec2Model ----------------------------
(***************************************************************************)
(* Model of the highlight detection and segmentation engine of the        *)
(* youtube_timeline_generator:                                             *)
(*   - EntertainmentDetector (entertainment_detector.py): detect_sections, *)
(*     the event merger, the section builder and the prioritizer;          *)
(*   - AudioAnalyzer (audio_analyzer.py): the three threshold detectors.   *)
(*                                                                         *)
(* Conventions.                                                            *)
(*   Times of the events handed to detect_sections are whole seconds;      *)
(*   frame times are rationals.  Real-valued quantities computed by the    *)
(*   code (intensities, weights, priority scores, durations) are exact     *)
(*   rationals <<num, den>> in lowest terms with den > 0; floating-point   *)
(*   rounding is not modelled.  rms values and rms thresholds are in       *)
(*   thousandths.  A Python dict is a record; a key the dict lacks is a    *)
(*   field the record lacks.  A Python string built from pieces is the     *)
(*   sequence of its pieces (tokens); the Japanese literals of the source  *)
(*   are written as ASCII tokens, named next to each use.                  *)
(***************************************************************************)
EXTENDS Integers, Sequences, FiniteSets, TLC

VARIABLES
    pc,               \* which specification runs and where it stands
    all_events,       \* detect_sections: the caller's event list
    transcription,    \* detect_sections: transcription, <<>> for None, else <<dict>>
    merge_threshold,  \* detect_sections: merge_threshold (seconds)
    sorted_events,    \* detect_sections: local sorted_events
    groups,           \* _merge_nearby_events: the groups handed to _merge_event_group
    merged_events,    \* detect_sections: local merged_events
    built_sections,   \* detect_sections: sections as _create_sections returns them
    sections,         \* detect_sections: the returned list
    raised,           \* the exception detect_sections lets out, None if it returns
    remerged,         \* _merge_nearby_events applied to merged_events
    analysis,         \* AudioAnalyzer: the analysis dict (rms, times, sample_rate)
    params,           \* AudioAnalyzer: the tunable parameters of the three detectors
    volume_events,    \* result of detect_volume_peaks
    surprise_events,  \* result of detect_silence_to_loud
    sustained_events, \* result of detect_sustained_high_volume
    pattern_result,   \* EventDetector: what the detector called hands back
    normalized,       \* EventDetector: what _normalize hands back
    heap,             \* the objects of a call of detect_sections, by reference
    frame,            \* that call: the references it is given and the one it returns
    files,            \* ticket.py: the ticket files, by path
    clock,            \* ticket.py: datetime.now(), in half seconds
    created,          \* ticket.py: the ids create_ticket has returned
    last_move,        \* ticket.py: the last call of move_ticket and its outcome
    calls,            \* ticket.py: the calls of move_ticket that run side by side
    detector_transcription,  \* SectionDetector.detect_sections: transcription
    detector_sections,       \* SectionDetector.detect_sections: local sections
    formatted_sections       \* SectionDetector.detect_sections: the returned list

vars == <<pc, all_events, transcription, merge_threshold, sorted_events, groups,
          merged_events, built_sections, sections, raised, remerged, analysis, params,
          volume_events, surprise_events, sustained_events, pattern_result,
          normalized, heap, frame, files, clock, created, last_move, calls,
          detector_transcription, detector_sections, formatted_sections>>

mergerVars == <<all_events, transcription, merge_threshold, sorted_events, groups,
                merged_events, built_sections, sections, raised, remerged>>

audioVars == <<analysis, params, volume_events, surprise_events, sustained_events>>

patternVars == <<pattern_result, normalized>>

heapVars == <<heap, frame>>

ticketVars == <<files, clock, created, last_move, calls>>

detectorVars == <<detector_transcription, detector_sections, formatted_sections>>

\* what the calls of detect_sections, of the threshold detectors and of the
\* pattern detectors leave alone
outsideMerger == <<audioVars, patternVars, heapVars, ticketVars, detectorVars>>

outsideAudio == <<mergerVars, patternVars, heapVars, ticketVars, detectorVars>>

outsidePattern == <<mergerVars, heapVars, ticketVars, detectorVars>>

outsideHeap == <<mergerVars, audioVars, patternVars, ticketVars, detectorVars>>

outsideTicket == <<mergerVars, audioVars, patternVars, heapVars, detectorVars>>

outsideDetector == <<mergerVars, audioVars, patternVars, heapVars, ticketVars>>

----------------------------------------------------------------------------
(* Bounds of the model *)

\* longest event list handed to detect_sections
MaxEvents == 3

\* longest rms series handed to the threshold detectors
MaxFrames == 4

\* longest list of segments of a transcript, the scenario transcripts aside
MaxSegments == 2

\* longest feature series handed to the pattern detectors, the 16-frame series aside
MaxPatternFrames == 3

----------------------------------------------------------------------------
(* Python helpers *)

\* dict.get(key, default)
Get(d, key, default) == IF key \in DOMAIN d THEN d[key] ELSE default

\* a value no list, dict or number equals: Python's None
None == "None"

Range(s) == {s[k] : k \in 1..Len(s)}

Min2(a, b) == IF a < b THEN a ELSE b

Max2(a, b) == IF a > b THEN a ELSE b

Abs(n) == IF n < 0 THEN -n ELSE n

RECURSIVE GCD(_, _)
GCD(a, b) == IF b = 0 THEN a ELSE CHOOSE g \in {GCD(b, r) : r \in {a % b}} : TRUE

\* the rational n/d in lowest terms, d # 0
Rat(n, d) ==
    LET g == GCD(Abs(n), Abs(d))
        s == IF d < 0 THEN -1 ELSE 1
    IN  <<(s * n) \div g, (s * d) \div g>>

\* a + b over the least common denominator
RatAdd(a, b) ==
    LET g == GCD(a[2], b[2])
    IN  Rat(a[1] * (b[2] \div g) + b[1] * (a[2] \div g), (a[2] \div g) * b[2])

\* a * b, each numerator first reduced against the other denominator
RatMul(a, b) ==
    LET g == GCD(Abs(a[1]), b[2])
        h == GCD(Abs(b[1]), a[2])
    IN  Rat((a[1] \div g) * (b[1] \div h), (a[2] \div h) * (b[2] \div g))

\* a / b, b # 0
RatDiv(a, b) == Rat(a[1] * b[2], a[2] * b[1])

\* a < b, cross-multiplied by the denominators over their common divisor
RatLess(a, b) ==
    LET g == GCD(a[2], b[2])
    IN  a[1] * (b[2] \div g) < b[1] * (a[2] \div g)

RatLeq(a, b) == ~RatLess(b, a)

RatOfInt(n) == <<n, 1>>

\* a decimal literal with one digit after the point, in tenths: 1.5 is Tenths(15)
Tenths(n) == Rat(n, 10)


\* sorted(s, key=...): s in ascending order of the integer keys key[1..Len(s)];
\* Python's sort is stable, so elements of equal key keep their order
StableSort(s, key) ==
    LET n == Len(s)
        Before(j, i) == key[j] < key[i] \/ (key[j] = key[i] /\ j < i)
        pos(i) == Cardinality({j \in 1..n : Before(j, i)}) + 1
    IN  [p \in 1..n |-> s[CHOOSE i \in 1..n : pos(i) = p]]

RECURSIVE SumInts(_)
SumInts(s) == IF s = <<>> THEN 0 ELSE s[1] + SumInts(Tail(s))

\* the sum of the first n elements of s
RECURSIVE SumRatTo(_, _)
SumRatTo(s, n) ==
    IF n = 0 THEN RatOfInt(0)
    ELSE CHOOSE sum \in {RatAdd(before, s[n]) : before \in {SumRatTo(s, n - 1)}} : TRUE

SumRat(s) == SumRatTo(s, Len(s))

RECURSIVE Flatten(_)
Flatten(ss) == IF ss = <<>> THEN <<>> ELSE ss[1] \o Flatten(Tail(ss))

\* sep.join(parts), the parts being token sequences
RECURSIVE Join(_, _)
Join(parts, sep) ==
    IF parts = <<>> THEN <<>>
    ELSE IF Len(parts) = 1 THEN parts[1]
    ELSE parts[1] \o <<sep>> \o Join(Tail(parts), sep)

\* s[:n]
Take(s, n) == SubSeq(s, 1, Min2(n, Len(s)))

\* f"{n:02d}"
Pad2(n) == IF n < 10 THEN "0" \o ToString(n) ELSE ToString(n)

----------------------------------------------------------------------------
(* EntertainmentDetector: the tables of __init__ and _get_type_name *)

EventTypes == {"volume_peak", "surprise", "sustained_high_volume",
               "laughter", "applause", "cheering"}

\* self.event_weights.get(type, 1.0)
EventWeight(type) ==
    CASE type = "volume_peak"           -> Tenths(10)
      [] type = "surprise"              -> Tenths(15)
      [] type = "sustained_high_volume" -> Tenths(12)
      [] type = "laughter"              -> Tenths(13)
      [] type = "applause"              -> Tenths(14)
      [] type = "cheering"              -> Tenths(12)
      [] OTHER                          -> Tenths(10)

\* self.event_emojis.get(type, pin); each emoji is written as its name
EventEmoji(type) ==
    CASE type = "volume_peak"           -> "(speaker)"
      [] type = "surprise"              -> "(scream)"
      [] type = "sustained_high_volume" -> "(fire)"
      [] type = "laughter"              -> "(joy)"
      [] type = "applause"              -> "(clap)"
      [] type = "cheering"              -> "(tada)"
      [] type = "mixed"                 -> "(confetti)"
      [] OTHER                          -> "(pin)"

\* _get_type_name: the Japanese display name, written in English
GetTypeName(type) ==
    CASE type = "volume_peak"           -> "volume peak"
      [] type = "surprise"              -> "surprise"
      [] type = "sustained_high_volume" -> "sustained excitement"
      [] type = "laughter"              -> "laughter"
      [] type = "applause"              -> "applause"
      [] type = "cheering"              -> "cheering"
      [] OTHER                          -> type

\* the literal that opens a merged description; its first two characters are
\* the ones _create_section_title tests with startswith
CompositePrefix == "composite event ("

----------------------------------------------------------------------------
(* EntertainmentDetector._merge_event_group *)

\* start_time = events[0]['time']
MergedTimeLast(events) == events[Len(events)].time

MergedTime(events) == events[1].time

\* event_types = [e['type'] for e in events]
TypesOf(events) == [k \in 1..Len(events) |-> events[k].type]

\* main_type: the single type of the group, or 'mixed'
MainTypeFirst(events) == events[1].type

MainType(events) ==
    IF Cardinality(Range(TypesOf(events))) = 1 THEN events[1].type ELSE "mixed"

\* the weighted mean of the members' intensities
AvgIntensity(events) ==
    LET weight(e)    == EventWeight(e.type)
        intensity(e) == Get(e, "intensity", RatOfInt(1))
        total_intensity ==
            SumRat([k \in 1..Len(events) |-> RatMul(intensity(events[k]), weight(events[k]))])
        total_weight == SumRat([k \in 1..Len(events) |-> weight(events[k])])
    IN  IF RatLess(RatOfInt(0), total_weight)
        THEN RatDiv(total_intensity, total_weight)
        ELSE RatOfInt(1)

\* type_counts.items(): one <<type, count>> per type, in order of first occurrence
TypeCounts(event_types) ==
    LET n == Len(event_types)
        firsts == {k \in 1..n : \A j \in 1..(k - 1) : event_types[j] # event_types[k]}
        count(t) == Cardinality({k \in 1..n : event_types[k] = t})
        nth(p) == CHOOSE k \in firsts : Cardinality({j \in firsts : j < k}) = p - 1
    IN  [p \in 1..Cardinality(firsts) |-> <<event_types[nth(p)], count(event_types[nth(p)])>>]

\* the items in order of first occurrence, not sorted
UnsortedTypeCounts(event_types) == TypeCounts(event_types)

\* sorted(type_counts.items(), key=lambda x: x[1], reverse=True)
SortedTypeCounts(event_types) ==
    LET items == TypeCounts(event_types)
    IN  StableSort(items, [k \in 1..Len(items) |-> -items[k][2]])

\* the description of the merged event
MergedDescription(events) ==
    LET main_type == MainType(events)
        counted   == SortedTypeCounts(TypesOf(events))
        piece(tc) == IF tc[2] > 1
                     THEN <<GetTypeName(tc[1]), "x", ToString(tc[2])>>
                     ELSE <<GetTypeName(tc[1])>>
        descriptions == [k \in 1..Len(counted) |-> piece(counted[k])]
    IN  IF main_type = "mixed"
        THEN <<CompositePrefix>> \o Join(Take(descriptions, 3), ", ") \o <<")">>
        ELSE <<GetTypeName(main_type)>>

\* 'event_count': len(events)
MergedEventCountTypes(events) == Cardinality(Range(TypesOf(events)))

MergedEventCount(events) == Len(events)

\* the dict built for a group of two or more events
MergedRecord(events) ==
    [time        |-> MergedTime(events),
     type        |-> MainType(events),
     intensity   |-> AvgIntensity(events),
     description |-> MergedDescription(events),
     event_count |-> MergedEventCount(events)]

MergeEventGroupAlways(events) == MergedRecord(events)

MergeEventGroup(events) ==
    IF Len(events) = 1 THEN events[1] ELSE MergedRecord(events)

----------------------------------------------------------------------------
(* EntertainmentDetector._merge_nearby_events *)

\* time_diff <= threshold, time_diff being the gap to the previous event
JoinsCurrentGroupFromFirst(events, i, current_group, threshold) ==
    events[i].time - current_group[1].time <= threshold

JoinsCurrentGroup(events, i, current_group, threshold) ==
    events[i].time - events[i - 1].time <= threshold

\* merged.append(...)
AppendMergedInFront(merged, group) == <<group>> \o merged

AppendMerged(merged, group) == Append(merged, group)

\* the loop over events[1:], from index i on, with the groups closed so far
RECURSIVE GroupLoop(_, _, _, _, _)
GroupLoop(events, threshold, i, current_group, closed) ==
    IF i > Len(events)
    THEN IF current_group # <<>> THEN AppendMerged(closed, current_group) ELSE closed
    ELSE IF JoinsCurrentGroup(events, i, current_group, threshold)
         THEN GroupLoop(events, threshold, i + 1, Append(current_group, events[i]), closed)
         ELSE GroupLoop(events, threshold, i + 1, <<events[i]>>,
                        AppendMerged(closed, current_group))

\* the groups _merge_nearby_events hands to _merge_event_group, in the order
\* their results are appended to merged
EventGroups(events, threshold) ==
    IF events = <<>> THEN <<>>
    ELSE GroupLoop(events, threshold, 2, <<events[1]>>, <<>>)

MergeNearbyEvents(events, threshold) ==
    LET gs == EventGroups(events, threshold)
    IN  [k \in 1..Len(gs) |-> MergeEventGroup(gs[k])]

----------------------------------------------------------------------------
(* EntertainmentDetector: the section builder and the prioritizer *)

\* _format_time: MM:SS, or HH:MM:SS from one hour on; timedelta.seconds drops
\* whole days
FormatTime(seconds) ==
    LET td_seconds == seconds % 86400
        hours   == td_seconds \div 3600
        minutes == (td_seconds % 3600) \div 60
        secs    == td_seconds % 60
    IN  IF hours > 0
        THEN <<Pad2(hours), ":", Pad2(minutes), ":", Pad2(secs)>>
        ELSE <<Pad2(minutes), ":", Pad2(secs)>>

TitlePrefixNoneFrom15(intensity) ==
    IF RatLess(RatOfInt(2), intensity) THEN "large "
    ELSE IF RatLeq(Tenths(15), intensity) THEN ""
    ELSE "small "

\* the size word put before the description: "large" (dai), none, or "small" (shou)
TitlePrefix(intensity) ==
    IF RatLess(RatOfInt(2), intensity) THEN "large "
    ELSE IF RatLess(Tenths(15), intensity) THEN ""
    ELSE "small "

\* description.startswith(the first two characters of the composite literal)
StartsWithComposite(description) ==
    description # <<>> /\ description[1] = CompositePrefix

\* _create_section_title
CreateSectionTitle(event) ==
    LET emoji       == EventEmoji(event.type)
        description == Get(event, "description", <<>>)
        prefix      == TitlePrefix(Get(event, "intensity", RatOfInt(1)))
    IN  IF prefix # "" /\ ~StartsWithComposite(description)
        THEN <<emoji, " ", prefix>> \o description
        ELSE <<emoji, " ">> \o description

\* event.get('event_count', 1)
EventCountDefaultZero(event) == Get(event, "event_count", 0)

EventCount(event) == Get(event, "event_count", 1)

\* the section dict built for one merged event
CreateSection(event) ==
    [start_time     |-> event.time,
     start_time_str |-> FormatTime(event.time),
     title          |-> CreateSectionTitle(event),
     type           |-> event.type,
     intensity      |-> Get(event, "intensity", RatOfInt(1)),
     event_count    |-> EventCount(event)]

\* _create_sections; min_gap is accepted and never read
CreateSections(events, min_gap) ==
    [k \in 1..Len(events) |-> CreateSection(events[k])]

\* np.log(n) in thousandths, rounded to the nearest thousandth
LogMilli(n) ==
    CASE n = 1 -> 0
      [] n = 2 -> 693
      [] n = 3 -> 1099
      [] n = 4 -> 1386
      [] n = 5 -> 1609
      [] OTHER -> 1792

\* type_weight * intensity * (1 + np.log(event_count))
PriorityScore(section) ==
    LET type_weight == EventWeight(section.type)
        intensity   == Get(section, "intensity", RatOfInt(1))
        event_count == Get(section, "event_count", 1)
    IN  RatMul(RatMul(type_weight, intensity), Rat(1000 + LogMilli(event_count), 1000))

\* section['priority_score'] = priority_score
WithPriority(section) ==
    [f \in {"priority_score"} |-> PriorityScore(section)] @@ section

\* the sort that ends _prioritize_sections: sorted(sections, key=start_time)
SortSectionsByPriority(scored) ==
    LET higher(k) == {j \in 1..Len(scored) :
                         RatLess(scored[k].priority_score, scored[j].priority_score)}
    IN  StableSort(scored, [k \in 1..Len(scored) |-> Cardinality(higher(k))])

SortSections(scored) ==
    StableSort(scored, [k \in 1..Len(scored) |-> scored[k].start_time])

\* _prioritize_sections
PrioritizeSections(secs) ==
    SortSections([k \in 1..Len(secs) |-> WithPriority(secs[k])])

----------------------------------------------------------------------------
(* EntertainmentDetector: content from the transcript.  A text is the     *)
(* sequence of its characters; the ideographic full stop and comma that   *)
(* _summarize_content splits on are written ";" and ",".                  *)

HasKey(d, key) == key \in DOMAIN d

\* the limit of full_text
FullTextLimit == 200

\* max_length of _summarize_content
SummaryMaxLength == 30

Ellipsis == <<".", ".", ".">>

SentenceEnds == {";", ","}

\* str.strip()
Strip(s) ==
    LET inked == {k \in 1..Len(s) : s[k] # " "}
    IN  IF inked = {} THEN <<>>
        ELSE SubSeq(s, CHOOSE a \in inked : \A k \in inked : a <= k,
                       CHOOSE b \in inked : \A k \in inked : k <= b)

\* text.replace(stop, stop + newline).replace(comma, comma + newline).split(newline):
\* the pieces of text, each ending after a full stop or a comma, and the rest
SplitSentences(text) ==
    LET ends == {k \in 1..Len(text) : text[k] \in SentenceEnds}
        piece_of(k) == Cardinality({j \in ends : j < k}) + 1
        chars(p) == {k \in 1..Len(text) : piece_of(k) = p}
    IN  [p \in 1..(Cardinality(ends) + 1) |->
            IF chars(p) = {} THEN <<>>
            ELSE SubSeq(text, CHOOSE a \in chars(p) : \A k \in chars(p) : a <= k,
                              CHOOSE b \in chars(p) : \A k \in chars(p) : k <= b)]

\* [s.strip() for s in sentences if s.strip()]
StrippedSentences(pieces) ==
    SelectSeq([k \in 1..Len(pieces) |-> Strip(pieces[k])], LAMBDA s : s # <<>>)

\* _summarize_content(text)
SummarizeContent(text) ==
    IF text = <<>> THEN <<>>
    ELSE LET sentences == StrippedSentences(SplitSentences(text))
             long == {k \in 1..Len(sentences) : Len(sentences[k]) > 5}
             first == CHOOSE k \in long : \A j \in long : k <= j
         IN  IF sentences = <<>> THEN Take(text, SummaryMaxLength)
             ELSE IF long # {}
                  THEN IF Len(sentences[first]) <= SummaryMaxLength
                       THEN sentences[first]
                       ELSE Take(sentences[first], SummaryMaxLength - 3) \o Ellipsis
                  ELSE Take(sentences[1], SummaryMaxLength - 3) \o Ellipsis

\* abs(segment['start'] - section_time)
TimeDiff(segment, section_time) == Abs(segment.start - section_time)

\* the loop that keeps the first segment of least time_diff, then
\* segments.index(closest_segment): the first segment equal to it (0-based)
ClosestSegmentIndex(segments, section_time) ==
    LET n == Len(segments)
        closest == CHOOSE i \in 1..n :
                       \A j \in 1..n :
                           /\ TimeDiff(segments[i], section_time)
                                  <= TimeDiff(segments[j], section_time)
                           /\ j < i => TimeDiff(segments[i], section_time)
                                           < TimeDiff(segments[j], section_time)
        equal == {i \in 1..n : segments[i] = segments[closest]}
    IN  (CHOOSE i \in equal : \A j \in equal : i <= j) - 1

\* start_idx = max(0, segment_idx - 1)
WindowStart(segments, segment_idx) == Max2(0, segment_idx - 1)

WindowEndAtClosest(segments, segment_idx) == Min2(Len(segments), segment_idx + 1)

\* end_idx = min(len(segments), segment_idx + 3)
WindowEnd(segments, segment_idx) == Min2(Len(segments), segment_idx + 3)

\* the indices i of range(start_idx, end_idx) with
\* abs(segments[i]['start'] - section_time) <= 15, in order (0-based)
ContentIndices(segments, section_time) ==
    LET segment_idx == ClosestSegmentIndex(segments, section_time)
        start_idx == WindowStart(segments, segment_idx)
        end_idx == WindowEnd(segments, segment_idx)
    IN  SelectSeq([k \in 1..(end_idx - start_idx) |-> start_idx + k - 1],
                  LAMBDA i : TimeDiff(segments[i + 1], section_time) <= 15)

\* ' '.join(content_segments)
JoinedText(segments, section_time) ==
    LET idx == ContentIndices(segments, section_time)
    IN  Join([k \in 1..Len(idx) |-> segments[idx[k] + 1].text], " ")

\* full_text[:200] + '...' if len(full_text) > 200 else full_text
FullTextStored(full_text) ==
    IF Len(full_text) > FullTextLimit
    THEN Take(full_text, FullTextLimit) \o Ellipsis
    ELSE full_text

\* section['content'] = summary; section['full_text'] = ...
WithContent(section, segments) ==
    LET full_text == JoinedText(segments, section.start_time)
    IN  [f \in {"content", "full_text"} |->
            IF f = "content" THEN SummarizeContent(full_text)
            ELSE FullTextStored(full_text)] @@ section

\* segment['start'] of the closest-segment loop raises KeyError for a segment
\* that has no 'start'; the loop reads every segment
StartKeyError(segments) == \E k \in 1..Len(segments) : ~HasKey(segments[k], "start")

\* segments[i]['text'] raises KeyError for a gathered segment that has no 'text'
TextKeyError(segments, section_time) ==
    LET idx == ContentIndices(segments, section_time)
    IN  \E k \in 1..Len(idx) : ~HasKey(segments[idx[k] + 1], "text")

\* _add_content_from_transcription(sections, transcription): what it raises, if
\* anything, and the sections it returns
AddContentFromTranscription(secs, transcript) ==
    LET segments == Get(transcript, "segments", <<>>)
        raises == /\ secs # <<>>
                  /\ \/ StartKeyError(segments)
                     \/ \E k \in 1..Len(secs) : TextKeyError(segments, secs[k].start_time)
    IN  IF segments = <<>> THEN [raised |-> None, sections |-> secs]
        ELSE IF raises THEN [raised |-> "KeyError", sections |-> <<>>]
        ELSE [raised |-> None,
              sections |-> [k \in 1..Len(secs) |-> WithContent(secs[k], segments)]]

----------------------------------------------------------------------------
(* EntertainmentDetector.detect_sections *)

\* sorted(all_events, key=lambda x: x['time'])
SortEvents(events) ==
    StableSort(events, [k \in 1..Len(events) |-> events[k].time])

\* the default of the parameter min_gap, in seconds
DefaultMinGap == 10

----------------------------------------------------------------------------
(* AudioAnalyzer: the analysis dict *)

\* self.hop_length
HopLength == 512

\* librosa.frames_to_time(i): the time of frame i (counted from 0), in seconds
FrameTime(i, sample_rate) == Rat(i * HopLength, sample_rate)

\* the part of analyze_audio's result the threshold detectors read
Analysis(rms, sample_rate) ==
    [rms         |-> rms,
     times       |-> [k \in 1..Len(rms) |-> FrameTime(k - 1, sample_rate)],
     sample_rate |-> sample_rate]

\* x[i] for a Python index i (from 0)
At(x, i) == x[i + 1]

\* x[a:b] for Python indices 0 <= a, b <= len(x)
Slice(x, a, b) == SubSeq(x, a + 1, b)

\* int(seconds * sample_rate / self.hop_length), the seconds given in tenths
FramesIn(tenths, sample_rate) == (tenths * sample_rate) \div (10 * HopLength)

\* f"{x:.1f}" of a rational x >= 0
FormatOneDecimal(x) ==
    LET rounded == (20 * x[1] + x[2]) \div (2 * x[2])
    IN  ToString(rounded \div 10) \o "." \o ToString(rounded % 10)

----------------------------------------------------------------------------
(* scipy.signal.find_peaks(x, height=..., distance=...), as detect_volume_peaks *)
(* calls it                                                                     *)

\* the first index from i_ahead on, below i_max, whose sample differs from x[i]
RECURSIVE PlateauEnd(_, _, _, _)
PlateauEnd(x, i, i_ahead, i_max) ==
    IF i_ahead < i_max /\ At(x, i_ahead) = At(x, i)
    THEN PlateauEnd(x, i, i_ahead + 1, i_max)
    ELSE i_ahead

\* _local_maxima_1d: the middle of every plateau with a strictly lower sample on
\* both sides; the first and the last sample are never maxima
RECURSIVE LocalMaximaFrom(_, _, _)
LocalMaximaFrom(x, i, found) ==
    LET i_max == Len(x) - 1
    IN  IF i >= i_max THEN found
        ELSE IF At(x, i - 1) < At(x, i)
             THEN LET i_ahead == PlateauEnd(x, i, i + 1, i_max)
                  IN  IF At(x, i_ahead) < At(x, i)
                      THEN LocalMaximaFrom(x, i_ahead + 1,
                                           Append(found, (i + i_ahead - 1) \div 2))
                      ELSE LocalMaximaFrom(x, i_ahead + 1, found)
             ELSE LocalMaximaFrom(x, i + 1, found)

LocalMaxima(x) == IF Len(x) < 3 THEN <<>> ELSE LocalMaximaFrom(x, 1, <<>>)

\* _select_by_peak_distance: from the highest peak down (of equal peaks the later
\* first), a kept peak removes every other peak closer than distance
RECURSIVE SelectFrom(_, _, _, _)
SelectFrom(peaks, order, distance, keep) ==
    IF order = <<>> THEN keep
    ELSE LET j == order[1]
         IN  IF j \notin keep
             THEN SelectFrom(peaks, Tail(order), distance, keep)
             ELSE SelectFrom(peaks, Tail(order), distance,
                             {k \in keep : k = j \/ Abs(peaks[k] - peaks[j]) >= distance})

SelectByPeakDistance(peaks, x, distance) ==
    LET n == Len(peaks)
        ascending == StableSort([k \in 1..n |-> k], [k \in 1..n |-> At(x, peaks[k])])
        order == [k \in 1..n |-> ascending[n + 1 - k]]
        keep  == SelectFrom(peaks, order, distance, 1..n)
    IN  [p \in 1..Cardinality(keep) |->
            peaks[CHOOSE k \in keep : Cardinality({j \in keep : j < k}) = p - 1]]

----------------------------------------------------------------------------
(* AudioAnalyzer.detect_volume_peaks *)

\* np.sum(rms)
Sum(x) == SumInts(x)

\* n * sum(x^2) - sum(x)^2, which is n^2 times the variance np.std squares
ScaledVariance(x) ==
    Len(x) * SumInts([k \in 1..Len(x) |-> x[k] * x[k]]) - Sum(x) * Sum(x)

\* value >= mean_rms + threshold_multiplier * std_rms, the multiplier in tenths;
\* with d = n * value - sum(x) the test is 10 * d >= multiplier * sqrt(ScaledVariance)
AtLeastPeakThreshold(x, value, multiplier) ==
    LET d   == Len(x) * value - Sum(x)
        lhs == 100 * d * d
        rhs == multiplier * multiplier * ScaledVariance(x)
    IN  IF multiplier >= 0
        THEN d >= 0 /\ lhs >= rhs
        ELSE d >= 0 \/ lhs <= rhs

\* (rms[peak_idx] - mean_rms) / std_rms, kept as its sign and its square; the
\* code reaches it only for a peak, and a series with a peak has std_rms > 0
PeakIntensity(x, value) ==
    LET d == Len(x) * value - Sum(x)
    IN  [sign   |-> IF d > 0 THEN 1 ELSE IF d < 0 THEN -1 ELSE 0,
         square |-> Rat(d * d, ScaledVariance(x))]

\* _get_volume_description of a peak intensity kept as sign and square
PeakDescription(intensity) ==
    LET Above(tenths) ==
            intensity.sign > 0 /\ RatLess(Rat(tenths * tenths, 100), intensity.square)
    IN  IF Above(30) THEN <<"very large volume peak">>
        ELSE IF Above(20) THEN <<"large volume peak">>
        ELSE IF Above(15) THEN <<"volume surge">>
        ELSE <<"mild volume rise">>

\* the peaks find_peaks returns for a distance >= 1
FindPeaks(x, multiplier, distance) ==
    LET maxima == LocalMaxima(x)
        high   == SelectSeq(maxima, LAMBDA p : AtLeastPeakThreshold(x, At(x, p), multiplier))
    IN  SelectByPeakDistance(high, x, distance)

\* detect_volume_peaks: find_peaks raises ValueError when distance < 1, and
\* nothing catches it
DetectVolumePeaksResult(a, threshold_multiplier, min_duration) ==
    LET distance == FramesIn(min_duration, a.sample_rate)
        peaks    == FindPeaks(a.rms, threshold_multiplier, distance)
    IN  IF distance < 1
        THEN [raised |-> "ValueError", events |-> <<>>]
        ELSE [raised |-> None,
              events |-> [k \in 1..Len(peaks) |->
                  LET peak_intensity == PeakIntensity(a.rms, At(a.rms, peaks[k]))
                  IN  [time        |-> At(a.times, peaks[k]),
                       type        |-> "volume_peak",
                       intensity   |-> peak_intensity,
                       description |-> PeakDescription(peak_intensity)]]]

----------------------------------------------------------------------------
(* AudioAnalyzer.detect_silence_to_loud *)

\* silence_mask = rms < silence_threshold
SilenceMaskInclusive(rms, silence_threshold) ==
    [k \in 1..Len(rms) |-> rms[k] <= silence_threshold]

SilenceMask(rms, silence_threshold) ==
    [k \in 1..Len(rms) |-> rms[k] < silence_threshold]

\* the mean taken over every frame before i
LookbackFromStart(rms, i, lookback, silence_threshold) ==
    LET window == Slice(rms, 0, i)
    IN  /\ lookback > 0
        /\ Sum(window) < silence_threshold * 2 * Len(window)

\* np.mean(rms[max(0, i-lookback):i]) < silence_threshold * 2; the mean of an
\* empty slice is nan, and nan is below nothing
LookbackIsQuiet(rms, i, lookback, silence_threshold) ==
    LET window == Slice(rms, Max2(0, i - lookback), i)
    IN  /\ window # <<>>
        /\ Sum(window) < silence_threshold * 2 * Len(window)

\* the test of frame i (Python index, i >= 1) in the loop
IsSurprise(a, i, silence_threshold, loud_threshold, max_gap) ==
    /\ i > 0
    /\ At(SilenceMask(a.rms, silence_threshold), i - 1)
    /\ At(a.rms, i) > loud_threshold
    /\ LookbackIsQuiet(a.rms, i, Min2(i, FramesIn(max_gap, a.sample_rate)),
                       silence_threshold)

\* the dict built for frame i; descriptions: 'sudden rise in volume out of silence'
SurpriseEvent(a, i, silence_threshold) ==
    [time        |-> At(a.times, i),
     type        |-> "surprise",
     intensity   |-> Rat(At(a.rms, i), silence_threshold),
     description |-> <<"sudden volume rise out of silence">>]

\* the loop for i in range(1, len(rms))
RECURSIVE SurpriseLoop(_, _, _, _, _, _)
SurpriseLoop(a, i, silence_threshold, loud_threshold, max_gap, surprise) ==
    IF i >= Len(a.rms) THEN surprise
    ELSE SurpriseLoop(a, i + 1, silence_threshold, loud_threshold, max_gap,
            IF IsSurprise(a, i, silence_threshold, loud_threshold, max_gap)
            THEN Append(surprise, SurpriseEvent(a, i, silence_threshold))
            ELSE surprise)

DetectSilenceToLoudResult(a, silence_threshold, loud_threshold, max_gap) ==
    SurpriseLoop(a, 1, silence_threshold, loud_threshold, max_gap, <<>>)

----------------------------------------------------------------------------
(* AudioAnalyzer.detect_sustained_high_volume *)

\* high_volume_mask = rms > mean_rms * threshold_multiplier, multiplier in tenths
HighVolumeMask(rms, multiplier) ==
    [k \in 1..Len(rms) |-> 10 * Len(rms) * rms[k] > Sum(rms) * multiplier]

\* times[i] - times[start_idx], in seconds
RunDuration(a, start_idx, i) ==
    RatAdd(At(a.times, i), RatMul(RatOfInt(-1), At(a.times, start_idx)))

\* the dict built for the run start_idx..i-1; description: 'sustained excitement'
SustainedEvent(a, start_idx, i) ==
    LET duration == RunDuration(a, start_idx, i)
        run      == Slice(a.rms, start_idx, i)
    IN  [time        |-> At(a.times, start_idx),
         type        |-> "sustained_high_volume",
         duration    |-> duration,
         intensity   |-> Rat(Sum(run) * Len(a.rms), Len(run) * Sum(a.rms)),
         description |-> <<"sustained excitement (", FormatOneDecimal(duration), " s)">>]

\* start_idx = None
NoIndex == -1

\* what the end of a run appends: the event when the run lasted min_duration
\* (tenths of a second), nothing otherwise
CloseRun(a, start_idx, i, min_duration, sustained) ==
    IF RatLeq(Tenths(min_duration), RunDuration(a, start_idx, i))
    THEN Append(sustained, SustainedEvent(a, start_idx, i))
    ELSE sustained

\* the loop for i in range(len(high_volume_mask)); a run still open when the
\* loop ends is dropped
RECURSIVE SustainedLoopClosingLastRun(_, _, _, _, _, _)
SustainedLoopClosingLastRun(a, mask, i, start_idx, min_duration, sustained) ==
    IF i >= Len(mask)
    THEN IF start_idx # NoIndex /\ Len(mask) > 0
         THEN CloseRun(a, start_idx, Len(mask) - 1, min_duration, sustained)
         ELSE sustained
    ELSE IF At(mask, i) /\ start_idx = NoIndex
         THEN SustainedLoopClosingLastRun(a, mask, i + 1, i, min_duration, sustained)
    ELSE IF ~At(mask, i) /\ start_idx # NoIndex
         THEN SustainedLoopClosingLastRun(a, mask, i + 1, NoIndex, min_duration,
                            CloseRun(a, start_idx, i, min_duration, sustained))
    ELSE SustainedLoopClosingLastRun(a, mask, i + 1, start_idx, min_duration, sustained)

RECURSIVE SustainedLoop(_, _, _, _, _, _)
SustainedLoop(a, mask, i, start_idx, min_duration, sustained) ==
    IF i >= Len(mask) THEN sustained
    ELSE IF At(mask, i) /\ start_idx = NoIndex
         THEN SustainedLoop(a, mask, i + 1, i, min_duration, sustained)
    ELSE IF ~At(mask, i) /\ start_idx # NoIndex
         THEN SustainedLoop(a, mask, i + 1, NoIndex, min_duration,
                            CloseRun(a, start_idx, i, min_duration, sustained))
    ELSE SustainedLoop(a, mask, i + 1, start_idx, min_duration, sustained)

DetectSustainedHighVolumeResult(a, threshold_multiplier, min_duration) ==
    SustainedLoop(a, HighVolumeMask(a.rms, threshold_multiplier), 0, NoIndex,
                  min_duration, <<>>)

----------------------------------------------------------------------------
(* The events the detectors produce (the fields each detector sets) *)

\* AudioAnalyzer._get_volume_description, the four Japanese labels in English
VolumeDescription(intensity) ==
    IF RatLess(RatOfInt(3), intensity) THEN <<"very large volume peak">>
    ELSE IF RatLess(RatOfInt(2), intensity) THEN <<"large volume peak">>
    ELSE IF RatLess(Tenths(15), intensity) THEN <<"volume surge">>
    ELSE <<"mild volume rise">>

\* the dict detect_volume_peaks builds for a peak
VolumePeakEvent(time, intensity) ==
    [time |-> time, type |-> "volume_peak", intensity |-> intensity,
     description |-> VolumeDescription(intensity)]

\* the dict detect_applause builds for a span; the duration is printed with
\* one decimal
ApplauseEvent(time, duration, intensity) ==
    [time |-> time, type |-> "applause", duration |-> duration,
     intensity |-> intensity,
     description |-> <<"applause (", FormatOneDecimal(duration), " s)">>]

\* the dict detect_laughter builds for a span: a confidence and no intensity
LaughterEvent(time, duration, confidence) ==
    [time |-> time, type |-> "laughter", confidence |-> confidence,
     duration |-> duration, description |-> <<"laughter">>]

\* event times of the model, in seconds: gaps of 2, 5, 6, 7, 11 and 13
EventTimes == {1, 3, 8, 14}

InputEvents ==
    {VolumePeakEvent(t, x) : t \in EventTimes, x \in {Tenths(12), Tenths(25)}}
    \cup {ApplauseEvent(t, RatOfInt(2), Tenths(6)) : t \in EventTimes}
    \cup {LaughterEvent(t, RatOfInt(1), Tenths(8)) : t \in EventTimes}

\* merge_threshold: the default 5.0 and a smaller window
MergeThresholds == {1, 5}

EventLists == UNION {[1..n -> InputEvents] : n \in 0..MaxEvents}

\* transcription=None
NoTranscription == <<>>

\* a segment as SpeechRecognizer.transcribe builds it
Segment(start, text) == [start |-> start, end |-> start + 5, text |-> text]

\* a transcript as SpeechRecognizer.transcribe builds it
Transcript(segments) == <<[text |-> <<>>, segments |-> segments, language |-> "ja"]>>

\* the transcript of the worked example: segments starting at 0, 10, 13 and 25
ScenarioTexts == <<<<"z", "e", "r", "o">>, <<"t", "e", "n">>, <<"t", "h", "i", "r", "t">>,
                   <<"t", "w", "e", "n", "t">>>>

ScenarioStarts == <<0, 10, 13, 25>>

ScenarioTranscript ==
    Transcript([k \in 1..4 |-> Segment(ScenarioStarts[k], ScenarioTexts[k])])

\* the time of the section of the worked example
ScenarioSectionTime == 12

\* texts of segments: two characters, a sentence, a sentence after spaces and a
\* comma, and 120 characters
SegmentTexts ==
    {<<"h", "i">>,
     <<"s", "o", " ", "f", "u", "n", "n", "y", ";">>,
     <<" ", ",", "w", "o", "w", ";", "a", "g", "a", "i", "n", " ">>,
     [k \in 1..120 |-> "x"]}

SegmentStarts == {0, 10, 30}

\* segments of transcripts: whole ones, and ones that lack 'start' or 'text'
Segments ==
    {Segment(s, t) : s \in SegmentStarts, t \in SegmentTexts}
    \cup {[end |-> 15, text |-> <<"h", "i">>]}
    \cup {[start |-> s, end |-> s + 5] : s \in {10, 30}}

Transcriptions ==
    {NoTranscription, ScenarioTranscript, <<[text |-> <<>>, language |-> "ja"]>>}
    \cup {Transcript(segs) : segs \in UNION {[1..n -> Segments] : n \in 0..MaxSegments}}

\* the event lists of the calls that hand over a transcript: one or two events,
\* one at the time of the worked example
TranscriptEvents ==
    {VolumePeakEvent(ScenarioSectionTime, Tenths(25)),
     LaughterEvent(40, RatOfInt(1), Tenths(8))}

TranscriptEventLists == UNION {[1..n -> TranscriptEvents] : n \in 1..2}

----------------------------------------------------------------------------
(* Specification of detect_sections and of the merger run on its own output *)

NoLocals ==
    /\ sorted_events = <<>>
    /\ groups = <<>>
    /\ merged_events = <<>>
    /\ built_sections = <<>>
    /\ sections = <<>>
    /\ raised = None
    /\ remerged = <<>>

InitMerger ==
    /\ pc = "ready"
    /\ all_events \in EventLists
    /\ transcription = NoTranscription
    /\ merge_threshold \in MergeThresholds
    /\ NoLocals

IdleAudio ==
    /\ analysis = None
    /\ params = None
    /\ volume_events = [raised |-> None, events |-> <<>>]
    /\ surprise_events = <<>>
    /\ sustained_events = <<>>

\* what a pattern detector hands back: the exception it lets out if any, its events,
\* and its locals score and score > threshold
Raises(exception) == [raised |-> exception, events |-> <<>>, score |-> <<>>, above |-> <<>>]

NoPatternResult == Raises(None)

IdlePattern ==
    /\ pattern_result = NoPatternResult
    /\ normalized = <<>>

\* the reference that refers to nothing
NoRef == 0

IdleHeap ==
    /\ heap = <<>>
    /\ frame = [all_events |-> NoRef, transcription |-> NoRef, sections |-> NoRef]

\* ticket.py not run
IdleTicket ==
    /\ files = <<>>
    /\ clock = 0
    /\ created = <<>>
    /\ last_move = <<>>
    /\ calls = <<>>

\* section_detector.py not run
IdleDetector ==
    /\ detector_transcription = <<>>
    /\ detector_sections = <<>>
    /\ formatted_sections = <<>>

Init == InitMerger /\ IdleAudio /\ IdlePattern /\ IdleHeap /\ IdleTicket /\ IdleDetector

\* detect_sections(all_events, transcription, merge_threshold): with no events it
\* returns [] before any local is assigned; an exception of
\* _add_content_from_transcription is not caught and ends the call
DetectSections ==
    /\ pc = "ready"
    /\ IF all_events = <<>>
       THEN /\ pc' = "returned"
            /\ sections' = <<>>
            /\ UNCHANGED <<sorted_events, groups, merged_events, built_sections, raised>>
       ELSE LET sorted == SortEvents(all_events)
                merged == MergeNearbyEvents(sorted, merge_threshold)
                built  == CreateSections(merged, DefaultMinGap)
                attached == IF transcription # NoTranscription
                            THEN AddContentFromTranscription(built, transcription[1])
                            ELSE [raised |-> None, sections |-> built]
            IN  /\ sorted_events' = sorted
                /\ groups' = EventGroups(sorted, merge_threshold)
                /\ merged_events' = merged
                /\ built_sections' = built
                /\ raised' = attached.raised
                /\ IF attached.raised = None
                   THEN /\ pc' = "returned"
                        /\ sections' = PrioritizeSections(attached.sections)
                   ELSE /\ pc' = "raised"
                        /\ UNCHANGED sections
    /\ UNCHANGED <<all_events, transcription, merge_threshold, remerged>>
    /\ UNCHANGED outsideMerger

\* the merger run again on its own output, with the same threshold
MergeAgain ==
    /\ pc = "returned"
    /\ pc' = "remerged"
    /\ remerged' = MergeNearbyEvents(merged_events, merge_threshold)
    /\ UNCHANGED <<all_events, transcription, merge_threshold, sorted_events, groups,
                   merged_events, built_sections, sections, raised>>
    /\ UNCHANGED outsideMerger

Next == DetectSections \/ MergeAgain

\* detect_sections called with a transcript
InitTranscript ==
    /\ pc = "ready"
    /\ all_events \in TranscriptEventLists
    /\ transcription \in Transcriptions
    /\ merge_threshold = 5
    /\ NoLocals
    /\ IdleAudio
    /\ IdlePattern
    /\ IdleHeap
    /\ IdleTicket
    /\ IdleDetector

NextTranscript == DetectSections

SpecTranscript == InitTranscript /\ [][NextTranscript]_vars

\* events whose intensities lie on and around the limits 1.5 and 2.0 of the
\* title; a laughter event has no intensity
TitleEvents ==
    {VolumePeakEvent(t, x) : t \in {1, 3}, x \in {Tenths(10), Tenths(15), Tenths(20), Tenths(25)}}
    \cup {ApplauseEvent(t, RatOfInt(2), x) : t \in {1, 3}, x \in {Tenths(15), Tenths(25)}}
    \cup {LaughterEvent(t, RatOfInt(1), Tenths(8)) : t \in {1, 3}}

TitleEventLists == UNION {[1..n -> TitleEvents] : n \in 1..2}

\* detect_sections called with such events and no transcript
InitTitle ==
    /\ pc = "ready"
    /\ all_events \in TitleEventLists
    /\ transcription = NoTranscription
    /\ merge_threshold \in MergeThresholds
    /\ NoLocals
    /\ IdleAudio
    /\ IdlePattern
    /\ IdleHeap
    /\ IdleTicket
    /\ IdleDetector

NextTitle == DetectSections

SpecTitle == InitTitle /\ [][NextTitle]_vars

----------------------------------------------------------------------------
(* detect_sections on objects.  Python lists and dicts are objects that are *)
(* reached by reference and changed in place: the heap maps a reference to  *)
(* a list object, whose items are references, or to a dict object, whose    *)
(* fields are values; a reference is a positive number.                     *)

ListObject(items) == [list |-> items]

DictObject(fields) == [dict |-> fields]

\* a store through ref: a new object when ref is new, the object changed in
\* place when it is not
Put(h, ref, object) == (ref :> object) @@ h

\* the reference of the next object created
FreshRef(h) == (CHOOSE r \in DOMAIN h : \A q \in DOMAIN h : q <= r) + 1

DictAt(h, ref) == h[ref].dict

ItemsAt(h, ref) == h[ref].list

\* the dicts a list of references points at
Values(h, refs) == [k \in 1..Len(refs) |-> DictAt(h, refs[k])]

\* sorted(all_events, key=lambda x: x['time']): the references in a new order
SortedRefs(h, refs) ==
    StableSort(refs, [k \in 1..Len(refs) |-> DictAt(h, refs[k]).time])

\* the groups of _merge_nearby_events, each a list of references
RefGroups(h, refs, threshold) ==
    LET handles == [k \in 1..Len(refs) |-> [ref |-> refs[k], time |-> DictAt(h, refs[k]).time]]
        grouped == EventGroups(handles, threshold)
    IN  [g \in 1..Len(grouped) |-> [k \in 1..Len(grouped[g]) |-> grouped[g][k].ref]]

\* _merge_event_group for the groups from g on: events[0] itself for a group of
\* one, a new dict otherwise; the heap and the references appended to merged
RECURSIVE MergeGroupsOnHeap(_, _, _, _)
MergeGroupsOnHeap(h, ref_groups, g, merged) ==
    IF g > Len(ref_groups) THEN [heap |-> h, refs |-> merged]
    ELSE IF Len(ref_groups[g]) = 1
         THEN MergeGroupsOnHeap(h, ref_groups, g + 1, Append(merged, ref_groups[g][1]))
         ELSE MergeGroupsOnHeap(
                  Put(h, FreshRef(h), DictObject(MergedRecord(Values(h, ref_groups[g])))),
                  ref_groups, g + 1, Append(merged, FreshRef(h)))

\* the dict of the event itself in place of a new one
SectionRefInPlace(h, event_ref) == event_ref

\* section = {...}: a new dict
SectionRef(h, event_ref) == FreshRef(h)

\* _create_sections for the events from k on
RECURSIVE CreateSectionsOnHeap(_, _, _, _)
CreateSectionsOnHeap(h, event_refs, k, section_refs) ==
    IF k > Len(event_refs) THEN [heap |-> h, refs |-> section_refs]
    ELSE LET ref == SectionRef(h, event_refs[k])
         IN  CreateSectionsOnHeap(
                 Put(h, ref, DictObject(CreateSection(DictAt(h, event_refs[k])))),
                 event_refs, k + 1, Append(section_refs, ref))

\* the transcription dict, its segments read through their references
TranscriptionAt(h, ref) ==
    LET fields == DictAt(h, ref)
    IN  [text |-> fields.text, language |-> fields.language,
         segments |-> Values(h, ItemsAt(h, fields.segments))]

\* section[key] = ... of _add_content_from_transcription (whole segments) and of
\* _prioritize_sections, for the sections from k on
RECURSIVE StoreInSections(_, _, _, _)
StoreInSections(h, section_refs, k, segments) ==
    IF k > Len(section_refs) THEN h
    ELSE LET section == DictAt(h, section_refs[k])
             with_content == IF segments = <<>> THEN section
                             ELSE WithContent(section, segments)
         IN  StoreInSections(
                 Put(h, section_refs[k], DictObject(WithPriority(with_content))),
                 section_refs, k + 1, segments)

\* the heap of a caller: the event dicts at 1..Len(events), the caller's list
\* at the next reference with the given items, and after it, when a transcript
\* is handed over, the transcription dict, its list of segments and the segments
CallerHeap(events, items, transcript) ==
    LET n == Len(events)
        segs == IF transcript = NoTranscription THEN <<>> ELSE transcript[1].segments
        event_objects == [r \in 1..n |-> DictObject(events[r])]
        list_object == ((n + 1) :> ListObject(items))
        transcript_objects ==
            ((n + 2) :> DictObject([text |-> transcript[1].text,
                                    language |-> transcript[1].language,
                                    segments |-> n + 3]))
            @@ ((n + 3) :> ListObject([k \in 1..Len(segs) |-> n + 3 + k]))
            @@ [r \in (n + 4)..(n + 3 + Len(segs)) |-> DictObject(segs[r - n - 3])]
    IN  IF transcript = NoTranscription THEN list_object @@ event_objects
        ELSE transcript_objects @@ list_object @@ event_objects

\* event dicts of the caller
HeapEvents ==
    {VolumePeakEvent(1, Tenths(25)), ApplauseEvent(3, RatOfInt(2), Tenths(6)),
     LaughterEvent(8, RatOfInt(1), Tenths(8)), VolumePeakEvent(12, Tenths(12))}

MaxHeapDicts == 2

\* up to MaxHeapDicts event dicts, a list of up to three references to them in
\* any order and with repeats, and no transcript or the transcript of the worked
\* example
InitHeap ==
    /\ pc = "called"
    /\ \E n \in 1..MaxHeapDicts :
         \E events \in [1..n -> HeapEvents], transcript \in {NoTranscription, ScenarioTranscript} :
           \E items \in UNION {[1..len -> 1..n] : len \in 0..3} :
               /\ heap = CallerHeap(events, items, transcript)
               /\ frame = [all_events |-> n + 1,
                           transcription |-> IF transcript = NoTranscription THEN NoRef
                                             ELSE n + 2,
                           sections |-> NoRef]
    /\ transcription = NoTranscription
    /\ all_events = <<>>
    /\ merge_threshold = 5
    /\ NoLocals
    /\ IdleAudio
    /\ IdlePattern
    /\ IdleTicket
    /\ IdleDetector

\* the section references in the order of sorted(sections, key=start_time)
SortedSectionRefs(h, refs) ==
    StableSort(refs, [k \in 1..Len(refs) |-> DictAt(h, refs[k]).start_time])

\* the segments _add_content_from_transcription reads; none without a transcript
SegmentsRead(h, transcription_ref) ==
    IF transcription_ref = NoRef THEN <<>>
    ELSE TranscriptionAt(h, transcription_ref).segments

\* sections = entertainment_detector.detect_sections(all_events, transcription):
\* the call on the caller's references, each list and dict it makes a new object
\* (sorted(), merged, sections, the sorted list returned), and the reference of
\* the list returned stored in the caller's variable
CallDetectSections ==
    /\ pc = "called"
    /\ pc' = "back"
    /\ IF ItemsAt(heap, frame.all_events) = <<>>
       THEN /\ heap' = Put(heap, FreshRef(heap), ListObject(<<>>))
            /\ frame' = [frame EXCEPT !.sections = FreshRef(heap)]
       ELSE \E sorted_list \in {FreshRef(heap)} :
            \E h1 \in {Put(heap, sorted_list,
                            ListObject(SortedRefs(heap, ItemsAt(heap, frame.all_events))))} :
            \E merging \in {MergeGroupsOnHeap(
                                h1, RefGroups(h1, ItemsAt(h1, sorted_list), merge_threshold),
                                1, <<>>)} :
            \E h2 \in {Put(merging.heap, FreshRef(merging.heap), ListObject(merging.refs))} :
            \E creating \in {CreateSectionsOnHeap(h2, merging.refs, 1, <<>>)} :
            \E section_list \in {FreshRef(creating.heap)} :
            \E h3 \in {Put(creating.heap, section_list, ListObject(creating.refs))} :
            \E h4 \in {StoreInSections(h3, ItemsAt(h3, section_list), 1,
                                        SegmentsRead(h3, frame.transcription))} :
                /\ heap' = Put(h4, FreshRef(h4),
                               ListObject(SortedSectionRefs(h4, ItemsAt(h4, section_list))))
                /\ frame' = [frame EXCEPT !.sections = FreshRef(h4)]
    /\ UNCHANGED outsideHeap

NextHeap == CallDetectSections

SpecHeap == InitHeap /\ [][NextHeap]_vars

Spec == Init /\ [][Next]_vars

----------------------------------------------------------------------------
(* Specification of the three threshold detectors, each called on its own *)

\* rms values of the model, in thousandths: 0.0, 0.01 and 0.3
RmsValues == {0, 10, 300}

\* five frames of 0.01, one frame of 0.3, five frames of 0.01
ScenarioRms == <<10, 10, 10, 10, 10, 300, 10, 10, 10, 10, 10>>

\* the same with the quiet frames at 0.005, strictly below 0.01
ScenarioRmsQuiet == <<5, 5, 5, 5, 5, 300, 5, 5, 5, 5, 5>>

RmsSeries ==
    UNION {[1..n -> RmsValues] : n \in 0..MaxFrames}
    \cup {ScenarioRms, ScenarioRmsQuiet, <<10, 300, 10, 300, 10>>}

\* 1024 gives two frames a second; 22050 is the default of AudioAnalyzer
SampleRates == {1024, 22050}

\* the tunable parameters: multipliers and durations in tenths, rms thresholds
\* in thousandths; each set holds the default of the code and other settings
DetectorParams ==
    [peak_multiplier        : {15, 0},
     peak_min_duration      : {20, 5, 0},
     silence_threshold      : {10, 500},
     loud_threshold         : {100},
     max_gap                : {10, 0},
     sustained_multiplier   : {13, 5},
     sustained_min_duration : {50, 5}]

IdleMerger ==
    /\ all_events = <<>>
    /\ transcription = NoTranscription
    /\ merge_threshold = 5
    /\ NoLocals

NoResult == [raised |-> None, events |-> <<>>]

InitAudio ==
    /\ pc = "analysed"
    /\ \E rms \in RmsSeries, sample_rate \in SampleRates :
          analysis = Analysis(rms, sample_rate)
    /\ params \in DetectorParams
    /\ volume_events = NoResult
    /\ surprise_events = <<>>
    /\ sustained_events = <<>>
    /\ IdleMerger
    /\ IdlePattern
    /\ IdleHeap
    /\ IdleTicket
    /\ IdleDetector

\* analyzer.detect_silence_to_loud(analysis, ...)
DetectSilenceToLoud ==
    /\ pc = "analysed"
    /\ pc' = "surprises"
    /\ surprise_events' = DetectSilenceToLoudResult(analysis, params.silence_threshold,
                              params.loud_threshold, params.max_gap)
    /\ UNCHANGED <<analysis, params, volume_events, sustained_events>>
    /\ UNCHANGED outsideAudio

\* analyzer.detect_volume_peaks(analysis, ...)
DetectVolumePeaks ==
    /\ pc = "analysed"
    /\ pc' = "peaks"
    /\ volume_events' = DetectVolumePeaksResult(analysis, params.peak_multiplier,
                            params.peak_min_duration)
    /\ UNCHANGED <<analysis, params, surprise_events, sustained_events>>
    /\ UNCHANGED outsideAudio

\* analyzer.detect_sustained_high_volume(analysis, ...)
DetectSustainedHighVolume ==
    /\ pc = "analysed"
    /\ pc' = "sustained"
    /\ sustained_events' = DetectSustainedHighVolumeResult(analysis,
                               params.sustained_multiplier, params.sustained_min_duration)
    /\ UNCHANGED <<analysis, params, volume_events, surprise_events>>
    /\ UNCHANGED outsideAudio

NextAudio == DetectSilenceToLoud \/ DetectVolumePeaks \/ DetectSustainedHighVolume

SpecAudio == InitAudio /\ [][NextAudio]_vars

----------------------------------------------------------------------------
(* EventDetector (event_detector.py): the pattern detectors.  A feature    *)
(* series is a sequence of rationals.  An operation that numpy may refuse  *)
(* yields a record [raised, value].                                        *)

RatSub(a, b) == RatAdd(a, <<-b[1], b[2]>>)

RatSeq(ints) == [k \in 1..Len(ints) |-> RatOfInt(ints[k])]

\* np.min(data), data not empty
RatMin(data) == CHOOSE x \in Range(data) : \A y \in Range(data) : RatLeq(x, y)

\* np.max(data), data not empty
RatMax(data) == CHOOSE x \in Range(data) : \A y \in Range(data) : RatLeq(y, x)

\* np.mean(data), data not empty
RatMean(data) == RatDiv(SumRat(data), RatOfInt(Len(data)))

\* np.std(data) squared, data not empty
RatVariance(data) ==
    LET mean == RatMean(data)
        dev(k) == RatSub(data[k], mean)
    IN  RatDiv(SumRat([k \in 1..Len(data) |-> RatMul(dev(k), dev(k))]),
               RatOfInt(Len(data)))

\* an array as the tuple of its elements
Stored(s) == s \o <<>>

\* value > mean + factor * std, the factor in tenths and positive, std squared
\* being variance: the deviation of value is positive and its square exceeds
\* factor^2 * variance
AboveThreshold(value, mean, variance, factor) ==
    LET d == RatSub(value, mean)
    IN  /\ RatLess(RatOfInt(0), d)
        /\ RatLess(RatMul(Rat(factor * factor, 100), variance), RatMul(d, d))

\* data > np.mean(data) + factor * np.std(data), elementwise
AboveMeanPlusStd(data, factor) ==
    IF Len(data) = 0 THEN <<>>
    ELSE CHOOSE above \in
             {Stored([k \in 1..Len(data) |-> AboveThreshold(data[k], mean, variance, factor)]) :
                 mean \in {RatMean(data)}, variance \in {RatVariance(data)}} : TRUE

\* (data - min_val) / (max_val - min_val) if max_val - min_val > 0 else
\* np.zeros_like(data)
NormalizeBetween(data, min_val, max_val) ==
    IF RatLess(RatOfInt(0), RatSub(max_val, min_val))
    THEN Stored([k \in 1..Len(data) |->
                    RatDiv(RatSub(data[k], min_val), RatSub(max_val, min_val))])
    ELSE [k \in 1..Len(data) |-> RatOfInt(0)]

\* data divided by its maximum, the minimum left out
NormalizeByMax(data) ==
    IF Len(data) = 0 THEN data
    ELSE CHOOSE result \in
             {NormalizeBetween(data, RatOfInt(0), max_val) : max_val \in {RatMax(data)}} : TRUE

\* EventDetector._normalize
Normalize(data) ==
    IF Len(data) = 0 THEN data
    ELSE CHOOSE result \in
             {NormalizeBetween(data, min_val, max_val) :
                 min_val \in {RatMin(data)}, max_val \in {RatMax(data)}} : TRUE

\* a * b of two one-dimensional arrays: elementwise for equal lengths, a
\* one-element array is stretched to the other's length, any other pair of
\* lengths is refused
ArrayMul(a, b) ==
    IF Len(a) = Len(b)
    THEN [raised |-> None, value |-> Stored([k \in 1..Len(a) |-> RatMul(a[k], b[k])])]
    ELSE IF Len(a) = 1
    THEN [raised |-> None, value |-> Stored([k \in 1..Len(b) |-> RatMul(a[1], b[k])])]
    ELSE IF Len(b) = 1
    THEN [raised |-> None, value |-> Stored([k \in 1..Len(a) |-> RatMul(a[k], b[1])])]
    ELSE [raised |-> "ValueError", value |-> <<>>]

\* np.convolve(a, np.ones(window)/window, 'same'): the moving sum of a over
\* window frames divided by window, max(len(a), window) values cut from the
\* middle of the full convolution; an empty a or an empty window is refused
ConvolveOnesSame(a, window) ==
    IF Len(a) = 0 \/ window = 0 THEN [raised |-> "ValueError", value |-> <<>>]
    ELSE LET n == Len(a)
             offset == (Min2(n, window) - 1) \div 2
             full(k) == RatDiv(SumRat(Slice(a, Max2(0, k - window + 1), Min2(n - 1, k) + 1)),
                               RatOfInt(window))
         IN  [raised |-> None,
              value |-> Stored([i \in 1..Max2(n, window) |-> full(offset + i - 1)])]

\* np.diff(x)
Diff(x) == [k \in 1..(Len(x) - 1) |-> RatSub(x[k + 1], x[k])]

RatAbs(a) == <<Abs(a[1]), a[2]>>

\* EventDetector._calculate_laughter_score(energy, energy_diff, zcr)
CalculateLaughterScore(energy, energy_diff, zcr) ==
    LET Combined(energy_norm, energy_var_norm, zcr_norm) ==
            LET min_len == Min2(Len(energy_norm), Min2(Len(energy_var_norm), Len(zcr_norm)))
            IN  [raised |-> None,
                 value |-> Stored([k \in 1..min_len |->
                               RatAdd(RatMul(Tenths(3), energy_norm[k]),
                                      RatAdd(RatMul(Tenths(4), energy_var_norm[k]),
                                             RatMul(Tenths(3), zcr_norm[k])))])]
        Scored(energy_var) ==
            IF energy_var.raised # None THEN [raised |-> energy_var.raised, value |-> <<>>]
            ELSE CHOOSE score \in
                     {Combined(energy_norm, energy_var_norm, zcr_norm) :
                         energy_norm \in {Normalize(energy)},
                         energy_var_norm \in
                             {Normalize(Slice(energy_var.value, 0, Len(energy_var.value) - 1))},
                         zcr_norm \in {Normalize(zcr)}} : TRUE
    IN  CHOOSE score \in
            {Scored(energy_var) :
                energy_var \in {ConvolveOnesSame(Stored([k \in 1..Len(energy_diff) |->
                                                            RatAbs(energy_diff[k])]), 10)}} : TRUE

\* self.hop_length of EventDetector
EventHopLength == 512

\* librosa.frames_to_time(np.arange(n)) at the detector's sample rate
FrameTimes(n, sample_rate) == [k \in 1..n |-> Rat((k - 1) * EventHopLength, sample_rate)]

\* the loop the three detectors run over their score, is_active and start_idx
\* being its flags: the spans <<start_idx, i>> it closes, each at the first
\* frame i that is not above the threshold after frames from start_idx that are
RECURSIVE ClosedSpans(_, _, _, _, _)
ClosedSpans(above, i, is_active, start_idx, spans) ==
    IF i >= Len(above) THEN spans
    ELSE IF At(above, i) /\ ~is_active
         THEN ClosedSpans(above, i + 1, TRUE, i, spans)
         ELSE IF ~At(above, i) /\ is_active
              THEN ClosedSpans(above, i + 1, FALSE, start_idx,
                               Append(spans, <<start_idx, i>>))
              ELSE ClosedSpans(above, i + 1, is_active, start_idx, spans)

\* (i - start_idx) * self.hop_length / self.sample_rate
SpanDuration(span, sample_rate) == Rat((span[2] - span[1]) * EventHopLength, sample_rate)

\* float(np.mean(score[start_idx:i]))
SpanMean(score, span) == RatMean(Slice(score, span[1], span[2]))

\* min(int(start_idx * len(times) / len(score)), len(times) - 1)
TimeIndex(start_idx, times, score) ==
    Min2((start_idx * Len(times)) \div Len(score), Len(times) - 1)

\* the dict detect_cheering builds for a span
CheeringEvent(time, duration, intensity) ==
    [time |-> time, type |-> "cheering", duration |-> duration,
     intensity |-> intensity,
     description |-> <<"cheering (", FormatOneDecimal(duration), " s)">>]

\* detect_laughter past the spectrogram: laugh_band_energy is the band energy
\* line 51 computes from audio_data
DetectLaughterResult(features, confidence_threshold, sample_rate) ==
    LET times == features.times
        laugh_band_energy == features.laugh_band_energy
        Events(laugh_score, above) ==
            LET spans == SelectSeq(ClosedSpans(above, 0, FALSE, NoIndex, <<>>),
                                   LAMBDA s : s[2] - s[1] > 10)
                event(s) == LaughterEvent(At(times, TimeIndex(s[1], times, laugh_score)),
                                          SpanDuration(s, sample_rate),
                                          SpanMean(laugh_score, s))
            IN  IF spans # <<>> /\ Len(times) = 0 THEN Raises("IndexError")
                ELSE [raised |-> None, events |-> [k \in 1..Len(spans) |-> event(spans[k])],
                      score |-> laugh_score, above |-> above]
        Scanned(laugh) ==
            IF laugh.raised # None THEN Raises(laugh.raised)
            ELSE CHOOSE result \in
                     {Events(laugh.value, above) :
                         above \in {Stored([k \in 1..Len(laugh.value) |->
                                      RatLess(confidence_threshold, laugh.value[k])])}} : TRUE
    IN  CHOOSE result \in
            {Scanned(laugh) :
                laugh \in {CalculateLaughterScore(laugh_band_energy, Diff(laugh_band_energy),
                                                  features.zero_crossing_rate)}} : TRUE

\* detect_applause past the spectral flatness, which line 108 computes from
\* audio_data; min_duration in tenths of a second
DetectApplauseResult(features, min_duration, sample_rate) ==
    LET times == features.times
        window_size == sample_rate \div (2 * EventHopLength)
        Events(applause_score_smooth, above) ==
            LET spans == SelectSeq(ClosedSpans(above, 0, FALSE, NoIndex, <<>>),
                                   LAMBDA s : RatLeq(Tenths(min_duration),
                                                     SpanDuration(s, sample_rate)))
                event(s) == ApplauseEvent(
                                At(times, TimeIndex(s[1], times, applause_score_smooth)),
                                SpanDuration(s, sample_rate),
                                SpanMean(applause_score_smooth, s))
            IN  IF spans # <<>> /\ Len(times) = 0 THEN Raises("IndexError")
                ELSE [raised |-> None, events |-> [k \in 1..Len(spans) |-> event(spans[k])],
                      score |-> applause_score_smooth, above |-> above]
        Scanned(smooth) ==
            IF smooth.raised # None THEN Raises(smooth.raised)
            ELSE CHOOSE result \in
                     {Events(smooth.value, above) :
                         above \in {AboveMeanPlusStd(smooth.value, 20)}} : TRUE
        Smoothed(applause_score) ==
            IF applause_score.raised # None THEN Raises(applause_score.raised)
            ELSE CHOOSE result \in
                     {Scanned(smooth) :
                         smooth \in {ConvolveOnesSame(applause_score.value, window_size)}} : TRUE
    IN  CHOOSE result \in
            {Smoothed(ArrayMul(zcr_norm, flatness_norm)) :
                zcr_norm \in {Normalize(features.zero_crossing_rate)},
                flatness_norm \in {Normalize(features.spectral_flatness)}} : TRUE

\* detect_cheering; min_duration in tenths of a second
DetectCheeringResult(features, min_duration, sample_rate) ==
    LET times == features.times
        Events(cheer_score, above) ==
            LET spans == SelectSeq(ClosedSpans(above, 0, FALSE, NoIndex, <<>>),
                                   LAMBDA s : RatLeq(Tenths(min_duration),
                                                     SpanDuration(s, sample_rate)))
                event(s) == CheeringEvent(At(times, s[1]), SpanDuration(s, sample_rate),
                                          SpanMean(cheer_score, s))
            IN  IF \E k \in 1..Len(spans) : spans[k][1] >= Len(times)
                THEN Raises("IndexError")
                ELSE [raised |-> None, events |-> [k \in 1..Len(spans) |-> event(spans[k])],
                      score |-> cheer_score, above |-> above]
        Scanned(product) ==
            IF product.raised # None THEN Raises(product.raised)
            ELSE CHOOSE result \in
                     {Events(product.value, above) :
                         above \in {AboveMeanPlusStd(product.value, 15)}} : TRUE
    IN  CHOOSE result \in
            {Scanned(product) :
                product \in {ArrayMul(centroids_norm, rms_norm) :
                                 centroids_norm \in {Normalize(features.spectral_centroids)},
                                 rms_norm \in {Normalize(features.rms)}}} : TRUE

\* series of the pattern detectors: every series of up to MaxPatternFrames
\* frames, and series of 16 frames that are high for one span of frames
FeatureValues == {1, 3}

ShortSeries == UNION {[1..n -> FeatureValues] : n \in 0..MaxPatternFrames}

\* low for `before` frames, high for `during` frames, low for `after` frames
Burst(before, during, after) ==
    [k \in 1..(before + during + after) |->
        IF k > before /\ k <= before + during THEN 3 ELSE 1]

BurstSeries ==
    {Burst(6, 3, 7), Burst(13, 3, 0), Burst(1, 11, 4), Burst(4, 12, 0), Burst(16, 0, 0)}

FeatureSeries == {RatSeq(s) : s \in ShortSeries \cup BurstSeries}

\* the analysis dict as the pattern detectors read it; laugh_band_energy and
\* spectral_flatness stand for what the detectors compute from audio_data
Features(a, b, n_times, sample_rate) ==
    [times |-> FrameTimes(n_times, sample_rate),
     rms |-> a, zero_crossing_rate |-> a,
     spectral_centroids |-> b, spectral_flatness |-> b, laugh_band_energy |-> b]

\* the sample rate of the detector and the thresholds of the three calls: the
\* defaults, the defaults at half a second a frame, and low thresholds there;
\* confidence_threshold and the durations in tenths
PatternParams ==
    {[sample_rate |-> 22050, confidence_threshold |-> 7, applause_min_duration |-> 10,
      cheering_min_duration |-> 15],
     [sample_rate |-> 1024, confidence_threshold |-> 7, applause_min_duration |-> 10,
      cheering_min_duration |-> 15],
     [sample_rate |-> 1024, confidence_threshold |-> 2, applause_min_duration |-> 5,
      cheering_min_duration |-> 5]}

InitPattern ==
    /\ pc = "features"
    /\ \E a \in FeatureSeries, b \in FeatureSeries, p \in PatternParams :
           \E n_times \in {0, Len(a), Len(b)} :
               /\ analysis = Features(a, b, n_times, p.sample_rate)
               /\ params = p
    /\ volume_events = NoResult
    /\ surprise_events = <<>>
    /\ sustained_events = <<>>
    /\ IdlePattern
    /\ IdleHeap
    /\ IdleTicket
    /\ IdleDetector
    /\ IdleMerger

\* event_detector.detect_laughter(analysis, confidence_threshold)
DetectLaughter ==
    /\ pc = "features"
    /\ pc' = "laughter"
    /\ pattern_result' = DetectLaughterResult(analysis, Tenths(params.confidence_threshold),
                                              params.sample_rate)
    /\ UNCHANGED <<analysis, params, volume_events, surprise_events, sustained_events,
                   normalized>>
    /\ UNCHANGED outsidePattern

\* event_detector.detect_applause(analysis, min_duration)
DetectApplause ==
    /\ pc = "features"
    /\ pc' = "applause"
    /\ pattern_result' = DetectApplauseResult(analysis, params.applause_min_duration,
                                              params.sample_rate)
    /\ UNCHANGED <<analysis, params, volume_events, surprise_events, sustained_events,
                   normalized>>
    /\ UNCHANGED outsidePattern

\* event_detector.detect_cheering(analysis, min_duration)
DetectCheering ==
    /\ pc = "features"
    /\ pc' = "cheering"
    /\ pattern_result' = DetectCheeringResult(analysis, params.cheering_min_duration,
                                              params.sample_rate)
    /\ UNCHANGED <<analysis, params, volume_events, surprise_events, sustained_events,
                   normalized>>
    /\ UNCHANGED outsidePattern

\* self._normalize(rms)
NormalizeRms ==
    /\ pc = "features"
    /\ pc' = "normalized"
    /\ normalized' = Normalize(analysis.rms)
    /\ UNCHANGED <<analysis, params, volume_events, surprise_events, sustained_events,
                   pattern_result>>
    /\ UNCHANGED outsidePattern

NextPattern == DetectLaughter \/ DetectApplause \/ DetectCheering

SpecPattern == InitPattern /\ [][NextPattern]_vars

\* series handed to _normalize: every series of up to MaxFrames frames over
\* three values
NormalizeValues == {0, 2, 5}

NormalizeSeries == {RatSeq(s) : s \in UNION {[1..n -> NormalizeValues] : n \in 0..MaxFrames}}

InitNormalize ==
    /\ pc = "features"
    /\ \E a \in NormalizeSeries : analysis = Features(a, a, Len(a), 22050)
    /\ params \in {p \in PatternParams : p.sample_rate = 22050}
    /\ volume_events = NoResult
    /\ surprise_events = <<>>
    /\ sustained_events = <<>>
    /\ IdlePattern
    /\ IdleHeap
    /\ IdleTicket
    /\ IdleDetector
    /\ IdleMerger

NextNormalize == NormalizeRms

SpecNormalize == InitNormalize /\ [][NextNormalize]_vars

\* one event of each detector, at time t: the dicts the six detectors build
DetectorEvents(t) ==
    {VolumePeakEvent(t, Tenths(25)),
     [SurpriseEvent(Analysis(<<5, 300>>, 1024), 1, 10) EXCEPT !.time = t],
     [SustainedEvent(Analysis(<<10, 300, 300, 10>>, 1024), 1, 3) EXCEPT !.time = t],
     LaughterEvent(t, RatOfInt(1), Tenths(8)),
     ApplauseEvent(t, RatOfInt(2), Tenths(6)),
     CheeringEvent(t, RatOfInt(2), Tenths(5))}

\* the most events of one group
MaxGroup == 5

\* event lists that make one group: an event a second, of any detector
GroupLists ==
    UNION {[1..n -> DetectorEvents(0)] : n \in 1..MaxGroup}

\* detect_sections called with the events of one group
InitGroup ==
    /\ pc = "ready"
    /\ \E events \in GroupLists :
           all_events = [k \in 1..Len(events) |-> [events[k] EXCEPT !.time = k]]
    /\ transcription = NoTranscription
    /\ merge_threshold = 5
    /\ NoLocals
    /\ IdleAudio
    /\ IdlePattern
    /\ IdleHeap
    /\ IdleTicket
    /\ IdleDetector

NextGroup == DetectSections

SpecGroup == InitGroup /\ [][NextGroup]_vars

----------------------------------------------------------------------------
(* _merge_event_group: the intensity as floating-point arithmetic computes it. *)
(* A float is a rational m * 2^e with m below 2^FloatBits; every operation     *)
(* gives the float nearest to the exact result, ties going to the even m.      *)
(* Python's floats carry 53 bits; FloatBits is smaller.                        *)

FloatBits == 8

\* 2^n, n >= 0
RECURSIVE Pow2(_)
Pow2(n) == IF n = 0 THEN 1 ELSE 2 * Pow2(n - 1)

\* the integer nearest to n/d, a tie going to the even one; n >= 0, d > 0
RoundHalfEven(n, d) ==
    LET floor == n \div d
        rest  == n % d
    IN  IF 2 * rest > d THEN floor + 1
        ELSE IF 2 * rest < d THEN floor
        ELSE floor + (floor % 2)

\* the exponent e with 2^(FloatBits-1) <= x / 2^e < 2^FloatBits, found from e; x > 0
RECURSIVE FloatExponent(_, _)
FloatExponent(x, e) ==
    LET scaled == IF e >= 0 THEN RatDiv(x, RatOfInt(Pow2(e)))
                  ELSE RatMul(x, RatOfInt(Pow2(-e)))
    IN  IF RatLeq(RatOfInt(Pow2(FloatBits)), scaled) THEN FloatExponent(x, e + 1)
        ELSE IF RatLess(scaled, RatOfInt(Pow2(FloatBits - 1))) THEN FloatExponent(x, e - 1)
        ELSE e

\* the float m * 2^e
FloatOf(m, e) == IF e >= 0 THEN RatOfInt(m * Pow2(e)) ELSE Rat(m, Pow2(-e))

\* x at the exponent e, rounded
RoundAt(x, e) ==
    IF e >= 0 THEN FloatOf(RoundHalfEven(x[1], x[2] * Pow2(e)), e)
    ELSE FloatOf(RoundHalfEven(x[1] * Pow2(-e), x[2]), e)

\* the float nearest to the rational x >= 0
Float(x) ==
    IF x[1] = 0 THEN x
    ELSE CHOOSE f \in {RoundAt(v, e) : v \in {x}, e \in {FloatExponent(x, 0)}} : TRUE

\* a + b, a * b and a / b of floats
FloatAdd(a, b) == Float(RatAdd(a, b))

FloatMul(a, b) == Float(RatMul(a, b))

FloatDiv(a, b) == Float(RatDiv(a, b))

\* every type weighing 1.0
FloatWeightOne(type) == RatOfInt(1)

\* weight = self.event_weights.get(event['type'], 1.0), a float
FloatWeight(type) == Float(EventWeight(type))

\* total_intensity and total_weight after the first n events of the loop
RECURSIVE FloatTotals(_, _)
FloatTotals(events, n) ==
    IF n = 0 THEN [total_intensity |-> RatOfInt(0), total_weight |-> RatOfInt(0)]
    ELSE LET Step(totals, weight, intensity) ==
                 [total_intensity |->
                      FloatAdd(totals.total_intensity, FloatMul(intensity, weight)),
                  total_weight |-> FloatAdd(totals.total_weight, weight)]
         IN  CHOOSE next \in
                 {Step(totals, weight, intensity) :
                     totals \in {FloatTotals(events, n - 1)},
                     weight \in {FloatWeight(events[n].type)},
                     intensity \in {Get(events[n], "intensity", RatOfInt(1))}} : TRUE

\* avg_intensity = total_intensity / total_weight if total_weight > 0 else 1.0
AvgIntensityFloat(events) ==
    LET Mean(totals) ==
            IF RatLess(RatOfInt(0), totals.total_weight)
            THEN FloatDiv(totals.total_intensity, totals.total_weight)
            ELSE RatOfInt(1)
    IN  CHOOSE avg_intensity \in
            {Mean(totals) : totals \in {FloatTotals(events, Len(events))}} : TRUE

\* _merge_event_group with the intensity computed in floats
MergeEventGroupFloat(events) ==
    IF Len(events) = 1 THEN events[1]
    ELSE [MergedRecord(events) EXCEPT !.intensity = AvgIntensityFloat(events)]

\* intensities the detectors hand over: floats, among them the floats nearest
\* to 0.1 and 0.7
FloatIntensities == {Float(Tenths(1)), Float(Tenths(7)), Tenths(25)}

\* the events of a group, every intensity a float; laughter has none
FloatEvents ==
    {VolumePeakEvent(0, x) : x \in FloatIntensities}
    \cup {ApplauseEvent(0, RatOfInt(2), x) : x \in FloatIntensities}
    \cup {CheeringEvent(0, RatOfInt(2), x) : x \in FloatIntensities}
    \cup {LaughterEvent(0, RatOfInt(1), Tenths(8))}

\* the most events of a group whose intensity is computed in floats
MaxFloatGroup == 3

FloatGroups == UNION {[1..n -> FloatEvents] : n \in 1..MaxFloatGroup}

\* a group the merger has closed
InitFloat ==
    /\ pc = "group"
    /\ \E events \in FloatGroups :
           all_events = [k \in 1..Len(events) |-> [events[k] EXCEPT !.time = k]]
    /\ transcription = NoTranscription
    /\ merge_threshold = 5
    /\ NoLocals
    /\ IdleAudio
    /\ IdlePattern
    /\ IdleHeap
    /\ IdleTicket
    /\ IdleDetector

\* merged.append(self._merge_event_group(current_group))
MergeGroup ==
    /\ pc = "group"
    /\ pc' = "merged"
    /\ merged_events' = <<MergeEventGroupFloat(all_events)>>
    /\ UNCHANGED <<all_events, transcription, merge_threshold, sorted_events, groups,
                   built_sections, sections, raised, remerged>>
    /\ UNCHANGED outsideMerger

NextFloat == MergeGroup

SpecFloat == InitFloat /\ [][NextFloat]_vars

----------------------------------------------------------------------------
(* Vocabulary of the properties of the merger *)

Returned == pc \in {"returned", "remerged"}

\* s is ascending by the field time
AscendingByTime(s) == \A k \in 1..(Len(s) - 1) : s[k].time <= s[k + 1].time

\* the index in groups of the group that holds sorted_events[i]
GroupIndex(i) ==
    CHOOSE g \in 1..Len(groups) :
        LET before == SumInts([h \in 1..(g - 1) |-> Len(groups[h])])
        IN  before < i /\ i <= before + Len(groups[g])

\* the gap between sorted_events[i] and the event just before it
GapBefore(i) == sorted_events[i].time - sorted_events[i - 1].time

SingleGroups == {k \in 1..Len(groups) : Len(groups[k]) = 1}

LargeGroups == {k \in 1..Len(groups) : Len(groups[k]) >= 2}

----------------------------------------------------------------------------
(* C1: the event counts of the merged groups (read as the section builder *)
(* reads them, a missing count being 1) add up to the number of input     *)
(* events, each group's count is the number of events it absorbed, and    *)
(* the same holds of the counts on the returned sections.                 *)
C1_EventCountsAddUp ==
    Returned =>
        /\ Len(merged_events) = Len(groups)
        /\ \A k \in 1..Len(groups) : EventCount(merged_events[k]) = Len(groups[k])
        /\ SumInts([k \in 1..Len(merged_events) |-> EventCount(merged_events[k])])
               = Len(all_events)
        /\ SumInts([k \in 1..Len(sections) |-> sections[k].event_count])
               = Len(all_events)

C1_Witness ==
    /\ pc = "returned"
    /\ Len(all_events) = MaxEvents
    /\ SingleGroups # {}
    /\ LargeGroups # {}

(* C2: for the time-sorted list detect_sections hands to the merger, the   *)
(* merger's output is ascending by time and no longer than its input.      *)
C2_MergedAscendingAndNoLonger ==
    Returned =>
        /\ AscendingByTime(sorted_events)
        /\ AscendingByTime(merged_events)
        /\ Len(merged_events) <= Len(sorted_events)

C2_Witness ==
    /\ pc = "returned"
    /\ Len(merged_events) >= 2
    /\ Len(merged_events) < Len(sorted_events)
    /\ all_events # sorted_events

(* C3: the groups partition the sorted events in order, and an event is in *)
(* the group of the event just before it exactly when the gap between the  *)
(* two is at most merge_threshold; otherwise it opens the next group.      *)
C3_JoinsIffGapToPreviousWithinThreshold ==
    Returned =>
        /\ Flatten(groups) = sorted_events
        /\ \A g \in 1..Len(groups) : groups[g] # <<>>
        /\ \A i \in 2..Len(sorted_events) :
              IF GapBefore(i) <= merge_threshold
              THEN GroupIndex(i) = GroupIndex(i - 1)
              ELSE GroupIndex(i) = GroupIndex(i - 1) + 1

\* a chain: every gap is within the threshold, the last event is further than
\* the threshold from the group's first event, and still all are one group
C3_Witness ==
    /\ pc = "returned"
    /\ Len(groups) = 1
    /\ Len(groups[1]) >= 3
    /\ groups[1][Len(groups[1])].time - groups[1][1].time > merge_threshold

\* the two events of the scenario: a volume_peak at t=1 and an applause at t=3
IsTypeScenario ==
    /\ Len(all_events) = 2
    /\ all_events[1].type = "volume_peak" /\ all_events[1].time = 1
    /\ all_events[2].type = "applause" /\ all_events[2].time = 3

(* C4: a merged group has its members' common type when they share one and *)
(* 'mixed' otherwise; the volume_peak at 1 and the applause at 3 make one   *)
(* mixed group of count 2 with merge_threshold 5, two groups with 1.        *)
C4_TypeIsCommonOrMixed ==
    Returned =>
        /\ \A k \in 1..Len(groups) :
              LET types == {groups[k][j].type : j \in 1..Len(groups[k])}
              IN  IF Cardinality(types) = 1
                  THEN merged_events[k].type \in types
                  ELSE merged_events[k].type = "mixed"
        /\ (IsTypeScenario /\ merge_threshold = 5) =>
              /\ Len(merged_events) = 1
              /\ merged_events[1].type = "mixed"
              /\ EventCount(merged_events[1]) = 2
        /\ (IsTypeScenario /\ merge_threshold = 1) =>
              /\ Len(merged_events) = 2
              /\ merged_events[1].type = "volume_peak"
              /\ merged_events[2].type = "applause"

C4_Witness ==
    /\ pc = "returned"
    /\ IsTypeScenario
    /\ merge_threshold = 5
    /\ merged_events[1].type = "mixed"

(* C5: the merger run again on its own output, with the same threshold,    *)
(* returns that output unchanged, every gap between two output elements    *)
(* being larger than the threshold.                                        *)
C5_MergingIsIdempotent ==
    pc = "remerged" =>
        /\ remerged = merged_events
        /\ \A k \in 1..(Len(merged_events) - 1) :
              merged_events[k + 1].time - merged_events[k].time > merge_threshold

C5_Witness ==
    /\ pc = "remerged"
    /\ Len(merged_events) >= 2
    /\ LargeGroups # {}
    /\ remerged = merged_events

(* C6, as stated: the record output for a group of one event has every     *)
(* field of that event unchanged and carries an event count equal to 1.    *)
C6_SingleCarriesEventCount ==
    Returned =>
        \A k \in SingleGroups :
            /\ \A f \in DOMAIN groups[k][1] :
                  f \in DOMAIN merged_events[k] /\ merged_events[k][f] = groups[k][1][f]
            /\ "event_count" \in DOMAIN merged_events[k]
            /\ merged_events[k].event_count = 1

(* C6, amended: the record output for a group of one event is that event   *)
(* itself, with no field added (so it carries no event count); the count 1 *)
(* appears on the section built from it.                                   *)
C6_SinglePassesThroughUnchanged ==
    Returned =>
        \A k \in SingleGroups :
            /\ merged_events[k] = groups[k][1]
            /\ "event_count" \notin DOMAIN merged_events[k]
            /\ built_sections[k].event_count = 1

C6_Witness ==
    /\ pc = "returned"
    /\ SingleGroups # {}
    /\ \E k \in SingleGroups : built_sections[k].event_count = 1

(* C7: the time of a merged group is the time of the group's first event,  *)
(* which is the earliest time in the group.                                *)
C7_MergedTimeIsEarliest ==
    Returned =>
        \A k \in 1..Len(groups) :
            /\ merged_events[k].time = groups[k][1].time
            /\ \A j \in 1..Len(groups[k]) : merged_events[k].time <= groups[k][j].time

C7_Witness ==
    /\ pc = "returned"
    /\ all_events # sorted_events
    /\ \E k \in LargeGroups :
          /\ groups[k][1].time < groups[k][Len(groups[k])].time
          /\ merged_events[k].time = groups[k][1].time

----------------------------------------------------------------------------
(* Vocabulary of the properties of the threshold detectors *)

\* every frame of the series has the same value
IsConstantRms == \A j, k \in 1..Len(analysis.rms) : analysis.rms[j] = analysis.rms[k]

\* the thresholds of the surprise scenario: silence 0.01, loud 0.1
ScenarioThresholds == params.silence_threshold = 10 /\ params.loud_threshold = 100

\* the durations at the defaults of the code: min_duration 2.0 s for peaks and
\* 5.0 s for sustained volume, max_gap 1.0 s
DefaultDurations ==
    /\ params.peak_min_duration = 20
    /\ params.sustained_min_duration = 50
    /\ params.max_gap = 10

\* exactly one surprise event, at the frame (Python index 5) where rms is 0.3
OneSurpriseAtTheLoudFrame ==
    /\ Len(surprise_events) = 1
    /\ surprise_events[1].type = "surprise"
    /\ surprise_events[1].time = At(analysis.times, 5)

(* C9, as stated: for five frames of 0.01, one of 0.3 and five of 0.01,    *)
(* with silence_threshold 0.01 and loud_threshold 0.1, detect_silence_to_  *)
(* loud returns exactly one surprise event, at the frame of 0.3 (max_gap   *)
(* being left at its default).                                             *)
C9_ScenarioGivesOneSurprise ==
    (pc = "surprises" /\ ScenarioThresholds /\ params.max_gap = 10
        /\ analysis.rms = ScenarioRms)
        => OneSurpriseAtTheLoudFrame

(* C9, amended: for that series and those thresholds detect_silence_to_loud *)
(* returns no event, a frame at exactly silence_threshold not being silent; *)
(* with the quiet frames at 0.005 and the default max_gap of 1.0 s it       *)
(* returns exactly one surprise event, at the frame of 0.3.                 *)
C9_ScenarioGivesNoSurpriseUnlessStrictlySilent ==
    (pc = "surprises" /\ ScenarioThresholds) =>
        /\ analysis.rms = ScenarioRms => surprise_events = <<>>
        /\ (analysis.rms = ScenarioRmsQuiet /\ params.max_gap = 10)
               => OneSurpriseAtTheLoudFrame

C9_Witness ==
    /\ pc = "surprises"
    /\ ScenarioThresholds
    /\ params.max_gap = 10
    /\ analysis.rms = ScenarioRms
    /\ surprise_events = <<>>

(* C10, as stated: for every constant rms series and every setting of the  *)
(* thresholds (the durations being left at their defaults), each of the    *)
(* three detectors returns an empty event list.                            *)
C10_ConstantRmsGivesNoEvents ==
    (IsConstantRms /\ DefaultDurations) =>
        /\ pc = "peaks" => volume_events = [raised |-> None, events |-> <<>>]
        /\ pc = "surprises" => surprise_events = <<>>
        /\ pc = "sustained" => sustained_events = <<>>

(* C10, amended: for every constant rms series and every setting,          *)
(* detect_sustained_high_volume returns an empty list; detect_volume_peaks *)
(* returns an empty list unless int(min_duration * sample_rate /           *)
(* hop_length) < 1, when find_peaks raises ValueError;                     *)
(* detect_silence_to_loud returns an empty list whenever silence_threshold *)
(* <= loud_threshold, and emits events only for a constant value strictly  *)
(* between loud_threshold and silence_threshold.                           *)
C10_ConstantRmsGivesNoEventsForOrderedThresholds ==
    IsConstantRms =>
        /\ pc = "peaks" =>
              /\ volume_events.events = <<>>
              /\ volume_events.raised = "ValueError" <=>
                     (params.peak_min_duration * analysis.sample_rate < 10 * HopLength)
        /\ pc = "sustained" => sustained_events = <<>>
        /\ (pc = "surprises" /\ params.silence_threshold <= params.loud_threshold)
              => surprise_events = <<>>
        /\ (pc = "surprises" /\ surprise_events # <<>>) =>
              /\ params.loud_threshold < analysis.rms[1]
              /\ analysis.rms[1] < params.silence_threshold

\* a constant series all of whose frames are above the sustained threshold, for
\* long enough, and no event
C10_Witness ==
    /\ pc = "sustained"
    /\ IsConstantRms
    /\ Len(analysis.rms) >= 3
    /\ analysis.rms[1] > 0
    /\ params.sustained_multiplier < 10
    /\ analysis.sample_rate = 1024
    /\ params.sustained_min_duration = 5
    /\ sustained_events = <<>>

----------------------------------------------------------------------------
(* Vocabulary of the properties of the transcript attachment *)

\* word occurs in text
Contains(text, word) ==
    \E i \in 1..(Len(text) - Len(word) + 1) : SubSeq(text, i, i + Len(word) - 1) = word

\* the sections of the returned list that start at the time of the worked example
ScenarioSections == {k \in 1..Len(sections) : sections[k].start_time = ScenarioSectionTime}

ScenarioCall == pc = "returned" /\ transcription = ScenarioTranscript

\* some segment of the transcript lacks 'start' or 'text'
HasMalformedSegment ==
    /\ transcription # NoTranscription
    /\ \E k \in 1..Len(Get(transcription[1], "segments", <<>>)) :
           \/ ~HasKey(transcription[1].segments[k], "start")
           \/ ~HasKey(transcription[1].segments[k], "text")

----------------------------------------------------------------------------
(* Transcript attachment *)

(* C11, as stated: for a section with start_time 12 and segments starting  *)
(* at 0, 10, 13 and 25, the text attached to the section holds the text of *)
(* the segment at 10 or at 13 and does not hold the text of the segment at *)
(* 25.                                                                     *)
C11_ScenarioTextLeavesOutSegmentAt25 ==
    ScenarioCall =>
        \A k \in ScenarioSections :
            /\ HasKey(sections[k], "full_text")
            /\ \/ Contains(sections[k].full_text, ScenarioTexts[2])
               \/ Contains(sections[k].full_text, ScenarioTexts[3])
            /\ ~Contains(sections[k].full_text, ScenarioTexts[4])

(* C11, amended: for a section with start_time 12 and segments starting at *)
(* 0, 10, 13 and 25, the closest segment is the one at 13, and full_text   *)
(* is the texts of the segments at 10, 13 and 25 joined by spaces: the     *)
(* segment at 25 is 13 s from the section, within 15 s; the segment at 0   *)
(* is two places before the closest one and is left out.                   *)
C11_ScenarioTextIsSegments10To25 ==
    ScenarioCall =>
        \A k \in ScenarioSections :
            /\ HasKey(sections[k], "full_text")
            /\ sections[k].full_text =
                   Join(<<ScenarioTexts[2], ScenarioTexts[3], ScenarioTexts[4]>>, " ")
            /\ ~Contains(sections[k].full_text, ScenarioTexts[1])

\* the call of the worked example has returned a section at 12 that carries text
C11_Witness ==
    /\ ScenarioCall
    /\ \E k \in ScenarioSections :
           HasKey(sections[k], "full_text") /\ sections[k].full_text # <<>>

(* C12: for every section and every transcript, the full_text stored on    *)
(* the section has at most 200 characters.                                 *)
C12_FullTextAtMost200 ==
    \A k \in 1..Len(sections) :
        HasKey(sections[k], "full_text") => Len(sections[k].full_text) <= FullTextLimit

(* C13: when a segment of the transcript lacks 'start' or 'text',          *)
(* detect_sections lets no exception out and returns every section.        *)
C13_MalformedSegmentsAreSkipped ==
    (pc # "ready" /\ HasMalformedSegment) =>
        /\ raised = None
        /\ pc = "returned"
        /\ Len(sections) = Len(merged_events)

----------------------------------------------------------------------------
(* Vocabulary of the properties of the pattern detectors *)

PatternCall == pc \in {"laughter", "applause", "cheering"}

\* the feature series the call combines
CombinedSeries ==
    CASE pc = "laughter" -> <<analysis.laugh_band_energy, analysis.zero_crossing_rate>>
      [] pc = "applause" -> <<analysis.zero_crossing_rate, analysis.spectral_flatness>>
      [] pc = "cheering" -> <<analysis.spectral_centroids, analysis.rms>>
      [] OTHER           -> <<>>

ShortestCombined == Min2(Len(CombinedSeries[1]), Len(CombinedSeries[2]))

\* the maximal spans <<first, last>> of frames (0-based) that are above the
\* threshold, those still running at the last frame included
MaximalSpans(above) ==
    {<<a, b>> \in (0..(Len(above) - 1)) \X (0..(Len(above) - 1)) :
        /\ a <= b
        /\ \A i \in a..b : At(above, i)
        /\ a = 0 \/ ~At(above, a - 1)
        /\ b = Len(above) - 1 \/ ~At(above, b + 1)}

\* the span meets the minimum of the detector called: more than 10 frames for
\* laughter, min_duration seconds of frames for applause and cheering
MeetsMinimum(span) ==
    LET frames == span[2] - span[1] + 1
        seconds == Rat(frames * EventHopLength, params.sample_rate)
    IN  CASE pc = "laughter" -> frames > 10
          [] pc = "applause" -> RatLeq(Tenths(params.applause_min_duration), seconds)
          [] pc = "cheering" -> RatLeq(Tenths(params.cheering_min_duration), seconds)

QualifyingSpans == {s \in MaximalSpans(pattern_result.above) : MeetsMinimum(s)}

----------------------------------------------------------------------------
(* Pattern detectors *)

(* C14: when the series a detector combines differ in length (none of them, *)
(* nor times, shorter than two frames), detect_laughter and detect_cheering *)
(* return a result whose score has the shortest of the lengths; neither     *)
(* raises.                                                                  *)
C14_MismatchedSeriesAreTruncated ==
    (/\ pc \in {"laughter", "cheering"}
     /\ Len(CombinedSeries[1]) # Len(CombinedSeries[2])
     /\ ShortestCombined >= 2
     /\ Len(analysis.times) >= 2) =>
        /\ pattern_result.raised = None
        /\ Len(pattern_result.score) = ShortestCombined

(* C15: for feature series of length 0 the pattern detectors return an     *)
(* empty list and raise nothing.                                           *)
C15_EmptySeriesGiveEmptyLists ==
    (/\ PatternCall
     /\ Len(CombinedSeries[1]) = 0
     /\ Len(CombinedSeries[2]) = 0
     /\ Len(analysis.times) = 0) =>
        /\ pattern_result.raised = None
        /\ pattern_result.events = <<>>

\* x lies in [0, 1]
InUnitInterval(x) == RatLeq(RatOfInt(0), x) /\ RatLeq(x, RatOfInt(1))

IsConstantSeries(data) == \A i, j \in 1..Len(data) : data[i] = data[j]

(* C16: _normalize keeps the length; a series that is not constant goes to  *)
(* values in [0, 1], every least element to 0, every greatest element to 1, *)
(* and the order of any two elements is kept; a constant series goes to     *)
(* zeros.                                                                   *)
C16_NormalizeMapsOntoUnitInterval ==
    pc = "normalized" =>
        LET data == analysis.rms
        IN  /\ Len(normalized) = Len(data)
            /\ IsConstantSeries(data) =>
                   \A k \in 1..Len(data) : normalized[k] = RatOfInt(0)
            /\ ~IsConstantSeries(data) =>
                   /\ \A k \in 1..Len(data) :
                          /\ InUnitInterval(normalized[k])
                          /\ data[k] = RatMin(data) => normalized[k] = RatOfInt(0)
                          /\ data[k] = RatMax(data) => normalized[k] = RatOfInt(1)
                   /\ \A i, j \in 1..Len(data) :
                          RatLess(data[i], data[j]) <=> RatLess(normalized[i], normalized[j])

\* a series of three distinct values has been normalized
C16_Witness ==
    /\ pc = "normalized"
    /\ Cardinality(Range(analysis.rms)) = 3
    /\ Cardinality(Range(normalized)) = 3

----------------------------------------------------------------------------
(* Runs and spans *)

\* the maximal runs of frames whose rms is above the sustained threshold
SustainedRuns == MaximalSpans(HighVolumeMask(analysis.rms, params.sustained_multiplier))

\* the run lasts min_duration, measured as the loop measures a run it closes:
\* from the run's first frame to the frame after its last
RunMeetsMinimum(run) ==
    RatLeq(Tenths(params.sustained_min_duration),
           Rat((run[2] - run[1] + 1) * HopLength, analysis.sample_rate))

QualifyingRuns == {r \in SustainedRuns : RunMeetsMinimum(r)}

(* C17: detect_sustained_high_volume emits exactly one event, timed at the *)
(* run's first frame, for every maximal run of frames above the threshold  *)
(* that lasts min_duration, a run that lasts until the final frame         *)
(* included, and nothing for shorter runs.                                 *)
C17_OneEventPerSustainedRun ==
    pc = "sustained" =>
        /\ Len(sustained_events) = Cardinality(QualifyingRuns)
        /\ \A r \in QualifyingRuns :
               \E k \in 1..Len(sustained_events) :
                   sustained_events[k].time = At(analysis.times, r[1])

(* C18: each pattern detector emits exactly one event per maximal span of  *)
(* frames whose score is above the threshold and whose length meets the    *)
(* detector's minimum, a span still active at the last frame included,     *)
(* timed at the span's start, and no event for shorter spans.              *)
C18_OneEventPerQualifyingSpan ==
    (PatternCall /\ pattern_result.raised = None) =>
        /\ Len(pattern_result.events) = Cardinality(QualifyingSpans)
        /\ Len(analysis.times) = Len(pattern_result.score) =>
               \A s \in QualifyingSpans :
                   \E k \in 1..Len(pattern_result.events) :
                       pattern_result.events[k].time = At(analysis.times, s[1])

----------------------------------------------------------------------------
(* Section titles *)

\* the title made of the emoji of the event's type, a space, the qualifier and
\* the description of the event
TitleWith(event, qualifier) ==
    <<EventEmoji(event.type), " ">>
        \o (IF qualifier = "" THEN <<>> ELSE <<qualifier>>)
        \o Get(event, "description", <<>>)

IntensityOf(event) == Get(event, "intensity", RatOfInt(1))

\* built_sections[k] is the section of merged_events[k]
BuiltFromMerged ==
    /\ pc = "returned"
    /\ Len(built_sections) = Len(merged_events)

(* C19, as stated: the title is the emoji of the type followed by the      *)
(* description, with the qualifier only for types other than mixed: large  *)
(* when intensity > 2.0, none when intensity is between 1.5 and 2.0        *)
(* inclusive, small only when intensity < 1.5.                             *)
C19_NoQualifierFrom15To20 ==
    BuiltFromMerged =>
        \A k \in 1..Len(merged_events) :
            LET event == merged_events[k]
                x == IntensityOf(event)
                qualifier == IF event.type = "mixed" THEN ""
                             ELSE IF RatLess(RatOfInt(2), x) THEN "large "
                             ELSE IF RatLess(x, Tenths(15)) THEN "small "
                             ELSE ""
            IN  built_sections[k].title = TitleWith(event, qualifier)

(* C19, amended: the title is the emoji of the type followed by the        *)
(* description, with the qualifier only for types other than mixed: large  *)
(* when intensity > 2.0, none when 1.5 < intensity <= 2.0, small when      *)
(* intensity <= 1.5; an intensity of exactly 1.5 gives small.              *)
C19_SmallUpTo15 ==
    BuiltFromMerged =>
        \A k \in 1..Len(merged_events) :
            LET event == merged_events[k]
                x == IntensityOf(event)
                qualifier == IF event.type = "mixed" THEN ""
                             ELSE IF RatLess(RatOfInt(2), x) THEN "large "
                             ELSE IF RatLeq(x, Tenths(15)) THEN "small "
                             ELSE ""
            IN  built_sections[k].title = TitleWith(event, qualifier)

\* a section built from an event of intensity exactly 1.5 that is not mixed
C19_Witness ==
    /\ BuiltFromMerged
    /\ \E k \in 1..Len(merged_events) :
           /\ merged_events[k].type # "mixed"
           /\ IntensityOf(merged_events[k]) = Tenths(15)
           /\ built_sections[k].title = TitleWith(merged_events[k], "small ")

----------------------------------------------------------------------------
(* detect_sections and the objects of its caller *)

\* C20: detect_sections mutates nothing it is given and returns new objects:
\* across the call every object that was on the heap before it (the caller's
\* list with its order and length, every event dict with its fields and values,
\* the transcript with its segments) is the same object afterwards, and the
\* list returned and every dict in it did not exist before the call.
C20_DetectSectionsMutatesNothing ==
    [][CallDetectSections =>
          /\ \A ref \in DOMAIN heap : ref \in DOMAIN heap' /\ heap'[ref] = heap[ref]
          /\ frame'.all_events = frame.all_events
          /\ frame'.transcription = frame.transcription
          /\ frame'.sections \notin DOMAIN heap
          /\ \A ref \in Range(ItemsAt(heap', frame'.sections)) : ref \notin DOMAIN heap]_vars

\* a call has returned sections, one of them made from an input dict that was
\* not merged, with the content and the priority stored in the section dicts
C20_Witness ==
    /\ pc = "back"
    /\ frame.transcription # NoRef
    /\ Len(ItemsAt(heap, frame.all_events)) >= 2
    /\ Len(ItemsAt(heap, frame.sections)) >= 2
    /\ \A ref \in Range(ItemsAt(heap, frame.sections)) :
           /\ HasKey(DictAt(heap, ref), "priority_score")
           /\ HasKey(DictAt(heap, ref), "full_text")
    /\ \E ref \in Range(ItemsAt(heap, frame.all_events)) :
           ~HasKey(DictAt(heap, ref), "priority_score")

----------------------------------------------------------------------------
(* The order in which the detectors' events are collected *)

\* the orders of the indices 1..n
Orders(n) == {p \in [1..n -> 1..n] : \A i, j \in 1..n : p[i] = p[j] => i = j}

\* the events in every order they can be collected in
Reorderings(events) ==
    {[k \in 1..Len(events) |-> events[p[k]]] : p \in Orders(Len(events))}

\* what detect_sections returns for the events, without a transcript
SectionsOf(events, threshold) ==
    IF events = <<>> THEN <<>>
    ELSE PrioritizeSections(
             CreateSections(MergeNearbyEvents(SortEvents(events), threshold), DefaultMinGap))

\* C21: the sections detect_sections returns are the same for every order of
\* the input event list.
C21_SectionsIndependentOfInputOrder ==
    pc = "returned" =>
        \A permuted \in Reorderings(all_events) :
            SectionsOf(permuted, merge_threshold) = sections

----------------------------------------------------------------------------
(* detect_silence_to_loud, frame by frame *)

\* the frames (from 0) of the lookback window of frame i: the min(i, the frames
\* in max_gap) frames before i
LookbackFrames(a, i, max_gap) ==
    {j \in 0..(i - 1) : j >= i - Min2(i, FramesIn(max_gap, a.sample_rate))}

\* the window has a mean and it is below twice the silence threshold
WindowMeanBelow(a, frames, silence_threshold) ==
    /\ frames # {}
    /\ SumInts([k \in 1..Len(a.rms) |-> IF k - 1 \in frames THEN a.rms[k] ELSE 0])
           < 2 * silence_threshold * Cardinality(frames)

\* the frames that are to yield a surprise event
SurpriseFrames(a, silence_threshold, loud_threshold, max_gap) ==
    {i \in 0..(Len(a.rms) - 1) :
        /\ i >= 1
        /\ At(a.rms, i - 1) < silence_threshold
        /\ At(a.rms, i) > loud_threshold
        /\ WindowMeanBelow(a, LookbackFrames(a, i, max_gap), silence_threshold)}

\* C22: detect_silence_to_loud emits a surprise event at frame i exactly when
\* i >= 1, frame i-1 is silent, rms[i] is above the loud threshold and the mean
\* rms of the lookback window before i is below twice the silence threshold;
\* frame 0 yields no event and the events are in ascending frame order.
C22_SurpriseExactlyAtQualifyingFrames ==
    pc = "surprises" =>
        /\ {surprise_events[k].time : k \in 1..Len(surprise_events)}
               = {At(analysis.times, i) :
                     i \in SurpriseFrames(analysis, params.silence_threshold,
                                          params.loud_threshold, params.max_gap)}
        /\ \A k \in 1..Len(surprise_events) :
               /\ surprise_events[k].type = "surprise"
               /\ surprise_events[k].time # At(analysis.times, 0)
        /\ \A k \in 1..(Len(surprise_events) - 1) :
               RatLess(surprise_events[k].time, surprise_events[k + 1].time)

\* a call that emitted an event and passed over a loud frame after a silent one
\* whose lookback window was not quiet
C22_Witness ==
    /\ pc = "surprises"
    /\ surprise_events # <<>>
    /\ \E i \in 1..(Len(analysis.rms) - 1) :
           /\ At(analysis.rms, i - 1) < params.silence_threshold
           /\ At(analysis.rms, i) > params.loud_threshold
           /\ i \notin SurpriseFrames(analysis, params.silence_threshold,
                                      params.loud_threshold, params.max_gap)
           /\ LookbackFrames(analysis, i, params.max_gap) # {}

----------------------------------------------------------------------------
(* The merged description and intensity of one group *)

\* the number of members of the group that have the type
MemberCount(events, type) == Cardinality({k \in 1..Len(events) : events[k].type = type})

\* the types of the members
MemberTypes(events) == {events[k].type : k \in 1..Len(events)}

\* the positions of the description at which the display name of the type stands
NamedAt(description, type) ==
    {k \in 1..Len(description) : description[k] = GetTypeName(type)}

\* the types the description names
ListedTypes(description) == {type \in EventTypes : NamedAt(description, type) # {}}

\* the description shows the type once, with its count when that exceeds 1
ShownWithCount(description, type, count) ==
    \E k \in 1..Len(description) :
        /\ NamedAt(description, type) = {k}
        /\ IF count > 1
           THEN /\ k + 2 <= Len(description)
                /\ description[k + 1] = "x"
                /\ description[k + 2] = ToString(count)
           ELSE /\ k + 1 <= Len(description)
                /\ description[k + 1] \in {", ", ")"}

\* a call for one group of two or more events has returned
OneGroupMerged ==
    /\ pc = "returned"
    /\ Len(all_events) >= 2
    /\ Len(merged_events) = 1

MemberIntensity(event) ==
    IF "intensity" \in DOMAIN event THEN event.intensity ELSE RatOfInt(1)

\* sum(weight_i * intensity_i) / sum(weight_i) in exact arithmetic, the weights
\* being the floats of the table
ExactWeightedMean(events) ==
    LET weight(k) == Float(EventWeight(events[k].type))
    IN  RatDiv(SumRat([k \in 1..Len(events) |-> RatMul(weight(k), MemberIntensity(events[k]))]),
               SumRat([k \in 1..Len(events) |-> weight(k)]))

\* the member intensities
MemberIntensities(events) == {MemberIntensity(events[k]) : k \in 1..Len(events)}

\* the rounding error n float operations can add up to, relative to the result
RoundingError(n) == Rat(n, Pow2(FloatBits))

\* a is within the part `relative` of b, both positive
WithinRelative(a, b, relative) ==
    /\ RatLeq(RatMul(b, RatSub(RatOfInt(1), relative)), a)
    /\ RatLeq(a, RatMul(b, RatAdd(RatOfInt(1), relative)))

\* a group of two or more events has been merged
GroupMerged == pc = "merged" /\ Len(all_events) >= 2

\* C24 as stated: the merged intensity of a group of two or more events equals
\* sum(weight_i * intensity_i) / sum(weight_i), a member without an intensity
\* counting 1.0, and lies between the smallest and the largest member intensity.
C24_IntensityIsWeightedMeanWithinRange ==
    GroupMerged =>
        /\ merged_events[1].intensity = ExactWeightedMean(all_events)
        /\ \E low, high \in MemberIntensities(all_events) :
               /\ RatLeq(low, merged_events[1].intensity)
               /\ RatLeq(merged_events[1].intensity, high)

\* C24, amended: the merged intensity is the weighted mean up to the rounding of
\* the 2n + 1 float operations that compute it for n members, a member without
\* an intensity counting 1.0; it lies between the smallest and the largest
\* member intensity up to that rounding.
C24_IntensityIsWeightedMeanUpToRounding ==
    GroupMerged =>
        LET error == RoundingError(2 * Len(all_events) + 1)
        IN  /\ WithinRelative(merged_events[1].intensity, ExactWeightedMean(all_events), error)
            /\ \E low, high \in MemberIntensities(all_events) :
                   /\ RatLeq(RatMul(low, RatSub(RatOfInt(1), error)),
                             merged_events[1].intensity)
                   /\ RatLeq(merged_events[1].intensity,
                             RatMul(high, RatAdd(RatOfInt(1), error)))

\* a merged group with a laughter member, which has no intensity, whose
\* intensity is not the exact mean
C24_Witness ==
    /\ GroupMerged
    /\ \E k \in 1..Len(all_events) : ~HasKey(all_events[k], "intensity")
    /\ \E k \in 1..Len(all_events) : HasKey(all_events[k], "intensity")
    /\ merged_events[1].intensity # ExactWeightedMean(all_events)

----------------------------------------------------------------------------
(* ticket.py: tickets as files tickets/<state>/<id>.json.  The file system is *)
(* the function files from the paths <<state, id>> that exist to the ticket   *)
(* data stored there; the clock counts half seconds.                          *)

\* STATES
STATES == <<"todo", "in_progress", "done">>

\* datetime.now().strftime("%Y%m%d_%H%M%S"): the clock cut to whole seconds
TicketIdAt(now) == now \div 2

\* os.path.join(TICKETS_DIR, state, f"{ticket_id}.json")
TicketPath(state, ticket_id) == <<state, ticket_id>>

\* os.path.exists(path)
Exists(fs, path) == path \in DOMAIN fs

\* with open(path, "w") as f: json.dump(data, f): the file made or replaced
WriteFile(fs, path, data) == (path :> data) @@ fs

\* os.remove(path) of a file that exists
RemoveFile(fs, path) == [q \in DOMAIN fs \ {path} |-> fs[q]]

\* ticket_data of create_ticket
NewTicket(ticket_id, title, now) ==
    [id |-> ticket_id, title |-> title, description |-> "description",
     assignee |-> None, priority |-> "medium", state |-> "todo",
     created_at |-> now, updated_at |-> now]

\* the states in which the ticket has a file, as indices of STATES
StatesHolding(fs, ticket_id) ==
    {k \in 1..Len(STATES) : Exists(fs, TicketPath(STATES[k], ticket_id))}

\* the loop over STATES that stops at the first file found: its state
CurrentState(fs, ticket_id) ==
    STATES[CHOOSE k \in StatesHolding(fs, ticket_id) :
               \A j \in StatesHolding(fs, ticket_id) : k <= j]

\* ticket_data["state"] = new_state; ticket_data["updated_at"] = now
Moved(ticket_data, new_state, now) ==
    [ticket_data EXCEPT !.state = new_state, !.updated_at = now]

\* move_ticket(ticket_id, new_state) run from start to end: what it returns and
\* the files it leaves
MoveTicketResult(fs, ticket_id, new_state, now) ==
    IF new_state \notin Range(STATES) THEN [result |-> FALSE, files |-> fs]
    ELSE IF StatesHolding(fs, ticket_id) = {} THEN [result |-> FALSE, files |-> fs]
    ELSE IF CurrentState(fs, ticket_id) = new_state THEN [result |-> TRUE, files |-> fs]
    ELSE LET current_path == TicketPath(CurrentState(fs, ticket_id), ticket_id)
             new_path == TicketPath(new_state, ticket_id)
         IN  [result |-> TRUE,
              files  |-> RemoveFile(WriteFile(fs, new_path,
                                              Moved(fs[current_path], new_state, now)),
                                    current_path)]

\* the last half second of the model's clock
MaxClock == 3

\* the most calls of create_ticket and move_ticket in a row
MaxTicketCalls == 3

\* titles of the tickets created
Titles == {"a", "b"}

\* the ids move_ticket is called with
TicketIds == 0..TicketIdAt(MaxClock)

\* the states move_ticket is called with: STATES and one that is none of them
RequestedStates == Range(STATES) \cup {"archived"}

\* no call of move_ticket made yet
NoMove == [number |-> 0, ticket_id |-> NoIndex, new_state |-> "", result |-> FALSE,
           before |-> <<>>, after |-> <<>>]

\* no call of move_ticket running
NoCalls == <<>>

InitTicket ==
    /\ pc = "tickets"
    /\ files = <<>>
    /\ clock = 0
    /\ created = <<>>
    /\ last_move = NoMove
    /\ calls = NoCalls
    /\ IdleMerger
    /\ IdleAudio
    /\ IdlePattern
    /\ IdleHeap
    /\ IdleDetector

\* the calls made so far
TicketCalls == Len(created) + last_move.number

\* time passes
Tick ==
    /\ pc = "tickets"
    /\ clock < MaxClock
    /\ clock' = clock + 1
    /\ UNCHANGED <<pc, files, created, last_move, calls>>
    /\ UNCHANGED outsideTicket

\* create_ticket(title, description): the id it returns is kept in created
CreateTicket ==
    /\ pc = "tickets"
    /\ TicketCalls < MaxTicketCalls
    /\ \E title \in Titles :
           LET ticket_id == TicketIdAt(clock)
           IN  /\ files' = WriteFile(files, TicketPath("todo", ticket_id),
                                     NewTicket(ticket_id, title, clock))
               /\ created' = Append(created, ticket_id)
    /\ UNCHANGED <<pc, clock, last_move, calls>>
    /\ UNCHANGED outsideTicket

\* move_ticket(ticket_id, new_state), run on its own; last_move keeps the call,
\* its number, what it returned, the files it found and the files it left
MoveTicket ==
    /\ pc = "tickets"
    /\ TicketCalls < MaxTicketCalls
    /\ \E ticket_id \in TicketIds, new_state \in RequestedStates :
           LET call == MoveTicketResult(files, ticket_id, new_state, clock)
           IN  /\ files' = call.files
               /\ last_move' = [number |-> last_move.number + 1, ticket_id |-> ticket_id,
                                new_state |-> new_state, result |-> call.result,
                                before |-> files, after |-> call.files]
    /\ UNCHANGED <<pc, clock, created, calls>>
    /\ UNCHANGED outsideTicket

NextTicket == Tick \/ CreateTicket \/ MoveTicket

SpecTicket == InitTicket /\ [][NextTicket]_vars

----------------------------------------------------------------------------
(* The tickets on disk *)

\* the ticket has its file in exactly one state directory
InOneState(fs, ticket_id) == Cardinality(StatesHolding(fs, ticket_id)) = 1

\* every file stores the name of its directory as the state
StateMatchesDirectory(fs) == \A path \in DOMAIN fs : fs[path].state = path[1]

\* the last call of move_ticket named no state of STATES or a ticket without a file
LastMoveRefused ==
    /\ last_move.number > 0
    /\ \/ last_move.new_state \notin Range(STATES)
       \/ StatesHolding(last_move.before, last_move.ticket_id) = {}

\* C25: after any sequence of create_ticket and move_ticket calls run one at a
\* time, every created ticket has its file in exactly one state directory and
\* the state stored in the file is the name of that directory; a move_ticket
\* call with an invalid state or an unknown ticket id returns False and leaves
\* the ticket files as they were.
C25_EveryTicketInOneMatchingState ==
    pc = "tickets" =>
        /\ \A k \in 1..Len(created) : InOneState(files, created[k])
        /\ StateMatchesDirectory(files)
        /\ LastMoveRefused => (~last_move.result /\ last_move.after = last_move.before)

\* C27: create_ticket never overwrites an existing ticket: every call stores its
\* ticket under an id that differs from the id of every ticket already stored,
\* so after n calls n distinct tickets exist.
C27_CreateNeverOverwrites ==
    pc = "tickets" =>
        /\ \A j, k \in 1..Len(created) : created[j] = created[k] => j = k
        /\ Cardinality(DOMAIN files) = Len(created)

----------------------------------------------------------------------------
(* Two calls of move_ticket for one ticket, run at the same time: ticket.py
   takes no lock, so the steps of the two calls interleave *)

\* the two processes that run move_ticket
Movers == {1, 2}

\* the ticket both calls name
SharedTicket == 0

\* a call of move_ticket(SharedTicket, new_state) that has not started
StartedCall(new_state) ==
    [pc |-> "start", new_state |-> new_state, current_state |-> None,
     ticket_data |-> <<>>, result |-> None]

\* the ticket was created and moved to some state before the two calls start
InitMoves ==
    /\ pc = "moves"
    /\ clock = 0
    /\ created = <<SharedTicket>>
    /\ last_move = NoMove
    /\ \E state \in Range(STATES) :
           files = WriteFile(<<>>, TicketPath(state, SharedTicket),
                             Moved(NewTicket(SharedTicket, "a", 0), state, 0))
    /\ \E first \in RequestedStates, second \in RequestedStates :
           calls = <<StartedCall(first), StartedCall(second)>>
    /\ IdleMerger
    /\ IdleAudio
    /\ IdlePattern
    /\ IdleHeap
    /\ IdleDetector

\* time passes while the calls run
TickMoves ==
    /\ pc = "moves"
    /\ clock < MaxClock
    /\ \E p \in Movers : calls[p].pc \notin {"returned", "raised"}
    /\ clock' = clock + 1
    /\ UNCHANGED <<pc, files, created, last_move, calls>>
    /\ UNCHANGED outsideTicket

\* lines 52-73: the test of new_state and the search for the file; the call
\* returns False or True or goes on with the state it found
Find ==
    \E p \in Movers :
        /\ pc = "moves"
        /\ calls[p].pc = "start"
        /\ calls' = [calls EXCEPT ![p] =
               IF calls[p].new_state \notin Range(STATES)
                   THEN [@ EXCEPT !.pc = "returned", !.result = "False"]
               ELSE IF StatesHolding(files, SharedTicket) = {}
                   THEN [@ EXCEPT !.pc = "returned", !.result = "False"]
               ELSE IF CurrentState(files, SharedTicket) = calls[p].new_state
                   THEN [@ EXCEPT !.pc = "returned", !.result = "True",
                                 !.current_state = CurrentState(files, SharedTicket)]
               ELSE [@ EXCEPT !.pc = "found",
                              !.current_state = CurrentState(files, SharedTicket)]]
        /\ UNCHANGED <<pc, files, clock, created, last_move>>
        /\ UNCHANGED outsideTicket

\* lines 76-77: open(current_path, "r") raises FileNotFoundError when the file
\* is gone, and nothing catches it
Read ==
    \E p \in Movers :
        /\ pc = "moves"
        /\ calls[p].pc = "found"
        /\ LET current_path == TicketPath(calls[p].current_state, SharedTicket)
           IN  calls' = [calls EXCEPT ![p] =
                   IF Exists(files, current_path)
                       THEN [@ EXCEPT !.pc = "read", !.ticket_data = files[current_path]]
                       ELSE [@ EXCEPT !.pc = "raised", !.result = "FileNotFoundError"]]
        /\ UNCHANGED <<pc, files, clock, created, last_move>>
        /\ UNCHANGED outsideTicket

\* lines 79-86: the data gets the new state and is written to the new path
WriteNew ==
    \E p \in Movers :
        /\ pc = "moves"
        /\ calls[p].pc = "read"
        /\ files' = WriteFile(files, TicketPath(calls[p].new_state, SharedTicket),
                              Moved(calls[p].ticket_data, calls[p].new_state, clock))
        /\ calls' = [calls EXCEPT ![p].pc = "written"]
        /\ UNCHANGED <<pc, clock, created, last_move>>
        /\ UNCHANGED outsideTicket

\* lines 89-92: os.remove(current_path) raises FileNotFoundError when the file
\* is gone; otherwise the call returns True
RemoveOld ==
    \E p \in Movers :
        /\ pc = "moves"
        /\ calls[p].pc = "written"
        /\ LET current_path == TicketPath(calls[p].current_state, SharedTicket)
           IN  IF Exists(files, current_path)
                   THEN /\ files' = RemoveFile(files, current_path)
                        /\ calls' = [calls EXCEPT ![p].pc = "returned",
                                                  ![p].result = "True"]
                   ELSE /\ files' = files
                        /\ calls' = [calls EXCEPT ![p].pc = "raised",
                                                  ![p].result = "FileNotFoundError"]
        /\ UNCHANGED <<pc, clock, created, last_move>>
        /\ UNCHANGED outsideTicket

NextMoves == TickMoves \/ Find \/ Read \/ WriteNew \/ RemoveOld

SpecMoves == InitMoves /\ [][NextMoves]_vars

\* both calls have ended
BothCallsEnded == \A p \in Movers : calls[p].pc \in {"returned", "raised"}

\* C26: when two move_ticket calls for the same ticket run at the same time
\* with their find, read, write-new and remove-old steps interleaved in any
\* order, every final state has the ticket's file in exactly one state directory
\* and neither call ends with an error that nothing handles.
C26_ConcurrentMovesKeepOneFile ==
    (pc = "moves" /\ BothCallsEnded) =>
        /\ InOneState(files, SharedTicket)
        /\ \A p \in Movers : calls[p].pc # "raised"

----------------------------------------------------------------------------
(* SectionDetector: sections from the transcript. A text is a sequence of
   characters; a character outside ASCII is written as its code point. *)

\* self.section_keywords: each pattern as the literal pieces that '.*' joins
\* (tsugi-wa, tsuzuite, soredewa, kokokara, mazu, saisho-ni, tsugi-ni, saigo-ni,
\* dewa.*nitsuite, .*no-setsumei, .*wo-mite, jissai-ni, demo, rei-toshite,
\* matome, and the English ones)
section_keywords ==
    <<<<<<"U+6B21", "U+306F">>>>,
      <<<<"U+7D9A", "U+3044", "U+3066">>>>,
      <<<<"U+305D", "U+308C", "U+3067", "U+306F">>>>,
      <<<<"U+3053", "U+3053", "U+304B", "U+3089">>>>,
      <<<<"U+307E", "U+305A">>>>,
      <<<<"U+6700", "U+521D", "U+306B">>>>,
      <<<<"U+6B21", "U+306B">>>>,
      <<<<"U+6700", "U+5F8C", "U+306B">>>>,
      <<<<"U+3067", "U+306F">>, <<"U+306B", "U+3064", "U+3044", "U+3066">>>>,
      <<<<>>, <<"U+306E", "U+8AAC", "U+660E">>>>,
      <<<<>>, <<"U+3092", "U+898B", "U+3066">>>>,
      <<<<"U+5B9F", "U+969B", "U+306B">>>>,
      <<<<"U+30C7", "U+30E2">>>>,
      <<<<"U+4F8B", "U+3068", "U+3057", "U+3066">>>>,
      <<<<"U+307E", "U+3068", "U+3081">>>>,
      <<<<"n", "e", "x", "t">>>>,
      <<<<"n", "o", "w">>>>,
      <<<<"l", "e", "t", "'", "s">>>>,
      <<<<"f", "i", "r", "s", "t">>>>,
      <<<<"f", "i", "n", "a", "l", "l", "y">>>>,
      <<<<"i", "n", " ", "t", "h", "i", "s", " ", "s", "e", "c", "t", "i", "o", "n">>>>,
      <<<<"m", "o", "v", "i", "n", "g", " ", "o", "n">>>>>>

\* self.min_section_duration
min_section_duration == 30

UpperCase == <<"A", "B", "C", "D", "E", "F", "G", "H", "I", "J", "K", "L", "M",
               "N", "O", "P", "Q", "R", "S", "T", "U", "V", "W", "X", "Y", "Z">>

LowerCase == <<"a", "b", "c", "d", "e", "f", "g", "h", "i", "j", "k", "l", "m",
               "n", "o", "p", "q", "r", "s", "t", "u", "v", "w", "x", "y", "z">>

\* text.lower()
Lower(text) ==
    [k \in 1..Len(text) |->
        IF \E n \in 1..26 : UpperCase[n] = text[k]
        THEN LowerCase[CHOOSE n \in 1..26 : UpperCase[n] = text[k]]
        ELSE text[k]]

\* the piece stands in the text from position k on
Occurs(piece, text, k) ==
    /\ k + Len(piece) - 1 <= Len(text)
    /\ \A j \in 1..Len(piece) : text[k + j - 1] = piece[j]

\* the pieces after the first match from position k on, each after a '.*' that
\* takes any characters but a newline
RECURSIVE MatchesFrom(_, _, _)
MatchesFrom(pieces, text, k) ==
    IF pieces = <<>> THEN TRUE
    ELSE \E b \in k..(Len(text) + 1) :
            /\ Occurs(pieces[1], text, b)
            /\ \A j \in k..(b - 1) : text[j] # "\n"
            /\ MatchesFrom(Tail(pieces), text, b + Len(pieces[1]))

\* re.search(pattern, text)
Search(pattern, text) ==
    \E a \in 1..(Len(text) + 1) :
        /\ Occurs(pattern[1], text, a)
        /\ MatchesFrom(Tail(pattern), text, a + Len(pattern[1]))

\* _is_section_start(text)
IsSectionStart(text) ==
    \E n \in 1..Len(section_keywords) : Search(section_keywords[n], Lower(text))

\* the full stops and commas _extract_section_title cuts a long title at, in the
\* order it tries them
TitleDelimiters == <<"U+3002", "U+3001", ",", ".">>

TitleMaxLength == 30

\* title.split(delimiter)[0]
BeforeFirst(title, delimiter) ==
    LET at == {k \in 1..Len(title) : title[k] = delimiter}
    IN  IF at = {} THEN title
        ELSE SubSeq(title, 1, (CHOOSE k \in at : \A j \in at : k <= j) - 1)

\* _extract_section_title(text, next_segments): the text stripped, a long one cut
\* at the first delimiter it holds and then to 27 characters and an ellipsis
ExtractSectionTitle(text) ==
    LET title == Strip(text)
        found == {n \in 1..Len(TitleDelimiters) :
                     \E k \in 1..Len(title) : title[k] = TitleDelimiters[n]}
        cut   == IF found = {} THEN title
                 ELSE BeforeFirst(title,
                          TitleDelimiters[CHOOSE n \in found : \A j \in found : n <= j])
    IN  IF Len(title) > TitleMaxLength
        THEN IF Len(cut) > TitleMaxLength THEN Take(cut, 27) \o Ellipsis ELSE cut
        ELSE title

\* the title of the section made for the segments before the first keyword
IntroductionTitle ==
    <<"U+30A4", "U+30F3", "U+30C8", "U+30ED", "U+30C0", "U+30AF", "U+30B7", "U+30E7",
      "U+30F3">>

\* f'section {section_num}', the word in katakana
NumberedTitle(section_num) ==
    <<"U+30BB", "U+30AF", "U+30B7", "U+30E7", "U+30F3", " ", ToString(section_num)>>

\* a section while it is built
OpenSection(start, title, segments) ==
    [start |-> start, title |-> title, segments |-> segments]

\* the keyword segment that comes too soon is dropped
TooSoonDropped(current_section, segment) == current_section

\* lines 79-82: a keyword segment that comes sooner than min_section_duration
\* after the start of the current section joins that section
TooSoon(current_section, segment) ==
    [current_section EXCEPT !.segments = Append(@, segment)]

\* lines 62-97: the loop over the segments from segment i on and the append of
\* the last section; current_section is <<>> for None
RECURSIVE SectionLoop(_, _, _, _)
SectionLoop(segments, i, found_sections, current_section) ==
    IF i > Len(segments) THEN found_sections \o current_section
    ELSE IF IsSectionStart(segments[i].text)
    THEN IF current_section = <<>>
            \/ segments[i].start - current_section[1].start >= min_section_duration
         THEN SectionLoop(segments, i + 1, found_sections \o current_section,
                          <<OpenSection(segments[i].start,
                                        ExtractSectionTitle(segments[i].text),
                                        <<segments[i]>>)>>)
         ELSE SectionLoop(segments, i + 1, found_sections,
                          <<TooSoon(current_section[1], segments[i])>>)
    ELSE IF current_section # <<>>
         THEN SectionLoop(segments, i + 1, found_sections,
                          <<[current_section[1] EXCEPT
                                !.segments = Append(@, segments[i])]>>)
         ELSE IF found_sections = <<>>
         THEN SectionLoop(segments, i + 1, found_sections,
                          <<OpenSection(0, IntroductionTitle, <<segments[i]>>)>>)
         ELSE SectionLoop(segments, i + 1, found_sections, current_section)

\* section_duration of _create_time_based_sections
section_duration == 300

\* _create_time_based_sections: the loop from segment i on and the append of the
\* last section when it holds a segment
RECURSIVE TimeBasedLoop(_, _, _, _, _)
TimeBasedLoop(segments, i, time_sections, current_section, section_num) ==
    IF i > Len(segments)
    THEN IF current_section.segments # <<>>
         THEN Append(time_sections, current_section)
         ELSE time_sections
    ELSE IF segments[i].start - current_section.start >= section_duration
    THEN TimeBasedLoop(segments, i + 1, Append(time_sections, current_section),
                       OpenSection(segments[i].start, NumberedTitle(section_num + 1),
                                   <<segments[i]>>),
                       section_num + 1)
    ELSE TimeBasedLoop(segments, i + 1, time_sections,
                       [current_section EXCEPT !.segments = Append(@, segments[i])],
                       section_num)

CreateTimeBasedSections(segments) ==
    TimeBasedLoop(segments, 1, <<>>, OpenSection(0, NumberedTitle(1), <<>>), 1)

\* _format_sections
FormatSections(found_sections) ==
    [k \in 1..Len(found_sections) |->
        [start_time     |-> found_sections[k].start,
         start_time_str |-> FormatTime(found_sections[k].start),
         title          |-> found_sections[k].title,
         text           |-> Join([j \in 1..Len(found_sections[k].segments) |->
                                     found_sections[k].segments[j].text], " ")]]

\* the sections detect_sections has at line 103: those of the loop, or the
\* time-based ones when the loop made none
SectionsFound(segments) ==
    IF segments = <<>> THEN <<>>
    ELSE IF SectionLoop(segments, 1, <<>>, <<>>) = <<>>
         THEN CreateTimeBasedSections(segments)
         ELSE SectionLoop(segments, 1, <<>>, <<>>)

\* longest list of segments handed to the SectionDetector
MaxTopicSegments == 3

\* texts of segments: no keyword, a keyword in capitals, a pattern of two pieces,
\* and more than 30 characters with a keyword before a comma
TopicTexts ==
    {<<"h", "i">>,
     <<"N", "o", "w">>,
     <<"U+3067", "U+306F", "x", "U+306B", "U+3064", "U+3044", "U+3066">>,
     <<"n", "e", "x", "t", ",">> \o [k \in 1..30 |-> "x"]}

TopicStarts == {20, 45}

TopicSegments == {Segment(s, t) : s \in TopicStarts, t \in TopicTexts}

\* the transcriptions handed over: without segments, and with up to
\* MaxTopicSegments segments
TopicTranscriptions ==
    {[text |-> <<>>, language |-> "ja"]}
    \cup {Transcript(segs)[1] :
             segs \in UNION {[1..n -> TopicSegments] : n \in 0..MaxTopicSegments}}

InitDetector ==
    /\ pc = "transcribed"
    /\ detector_transcription \in TopicTranscriptions
    /\ detector_sections = <<>>
    /\ formatted_sections = <<>>
    /\ IdleMerger
    /\ IdleAudio
    /\ IdlePattern
    /\ IdleHeap
    /\ IdleTicket

\* SectionDetector.detect_sections(transcription)
DetectTopicSections ==
    /\ pc = "transcribed"
    /\ pc' = "detected"
    /\ \E found_sections \in {SectionsFound(Get(detector_transcription, "segments", <<>>))} :
           /\ detector_sections' = found_sections
           /\ formatted_sections' = FormatSections(found_sections)
    /\ UNCHANGED detector_transcription
    /\ UNCHANGED outsideDetector

NextDetector == DetectTopicSections

SpecDetector == InitDetector /\ [][NextDetector]_vars

\* the segments handed to a finished call of SectionDetector.detect_sections
TopicSegmentsRead == Get(detector_transcription, "segments", <<>>)

\* the segments of the sections, section after section
AssignedSegments ==
    Flatten([k \in 1..Len(detector_sections) |-> detector_sections[k].segments])

\* C28: for every non-empty list of transcript segments, each segment is
\* assigned to exactly one section of SectionDetector.detect_sections, in the
\* order of the transcript inside and across the sections, the texts of the
\* returned sections read one after another are the texts of the segments, at least one
\* section is returned, and the loop itself makes a section, so that the
\* time-based sections are not needed.
C28_EverySegmentInOneSection ==
    (pc = "detected" /\ TopicSegmentsRead # <<>>) =>
        /\ AssignedSegments = TopicSegmentsRead
        /\ Len(formatted_sections) = Len(detector_sections)
        /\ Len(formatted_sections) >= 1
        /\ Join([k \in 1..Len(formatted_sections) |-> formatted_sections[k].text], " ")
               = Join([j \in 1..Len(TopicSegmentsRead) |-> TopicSegmentsRead[j].text], " ")
        /\ SectionLoop(TopicSegmentsRead, 1, <<>>, <<>>) # <<>>

\* a call whose second section took a keyword segment that came too soon after
\* its start, behind a first section of the segments before any keyword
C28_Witness ==
    /\ pc = "detected"
    /\ Len(TopicSegmentsRead) = 3
    /\ Len(detector_sections) = 2
    /\ detector_sections[1].title = IntroductionTitle
    /\ Len(detector_sections[2].segments) = 2
    /\ IsSectionStart(detector_sections[2].segments[2].text)

=============================================================================
